---- MODULE Spec2Model ----
(***************************************************************************)
(* Task lifecycle of the LLM task orchestrator: the store of Task rows,    *)
(* the dispatch queue, the RQ worker entry point execute_task              *)
(* (backend/app/jobs.py), the cancel and retry operations of the API       *)
(* (backend/app/crud.py, backend/app/main.py) and the scheduler tick       *)
(* (backend/app/scheduler.py).                                             *)
(*                                                                         *)
(* Every process works on its own SQLAlchemy session: db.get / db.refresh  *)
(* copy the stored row into a session-local object, assignments change the *)
(* local object only, and db.commit() writes back exactly the attributes   *)
(* whose value differs from the loaded one (UPDATE tasks SET <changed      *)
(* columns> WHERE id = ...).  One store statement is one step.             *)
(***************************************************************************)
EXTENDS Integers, FiniteSets, Sequences, TLC

\* ------------------------------------------------------------------ bounds
NumExecs == 2
NumScheds == 1
MaxDup == 1
MaxN == 3
MaxTime == 1
MaxCancel == 1
MaxRetry == 1
MaxOverride == 1
MaxChain == 2      \* chain requests accepted
MaxStreak == 5     \* store errors in a row met by one scheduler process
MaxAbort == 1      \* failed commits of the scheduler's claim transaction, per task
MaxStray == 2      \* calls of execute_task that no dispatch stands behind, per id

\* -------------------------------------------------------- program constants
DEFAULT_MAX_ATTEMPTS == 3
BATCH_SIZE == 10
POLL_SECONDS == 2
DB_ERROR_BACKOFF_MIN_SECONDS == 1
DB_ERROR_BACKOFF_MAX_SECONDS == 15

\* ------------------------------------------------------------------- values
NULL == "NULL"

TaskStatus == {"scheduled", "queued", "running", "completed", "failed", "cancelled"}

Terminal == {"completed", "failed", "cancelled"}

Execs == 1..NumExecs

Scheds == 1..NumScheds

\* IDs of the tasks the store can hold.
TaskIds == {"t1"}

\* IDs of the tasks created by chaining.
ChildIds == {"t2", "t3"}

\* Task IDs a message or a request can carry; "ghost" is never in the store.
Ids == TaskIds \cup {"ghost"}

\* The prompt of a task created through api_create_task: the text of the request.
Prompt == <<"prompt">>

\* A Task row.  Timestamps, texts and metadata are NULL or an abstract value;
\* llm_provider stands for llm_provider and llm_model, which are written together;
\* a prompt is the sequence of the pieces of text it is made of.
Task(status, attempts, max_attempts, scheduled_for) ==
    [status |-> status, attempts |-> attempts, max_attempts |-> max_attempts,
     scheduled_for |-> scheduled_for, started_at |-> NULL, finished_at |-> NULL,
     output |-> NULL, error |-> NULL, llm_provider |-> NULL, latency_ms |-> NULL,
     prompt |-> Prompt, parent_task_id |-> NULL]

\* The session holds no object.
NoTask == Task("scheduled", 0, 0, {})

VARIABLES
    tasks,        \* the store: task id -> committed row
    queue,        \* the dispatch channel: task id -> number of undelivered messages
    ex,           \* executors: [pc, id, task, dirty] (position, argument, session object, changed columns)
    genMode,      \* behaviour of the generation capability: "ok", "fail" or "any"
    dupLeft,      \* duplicate deliveries the transport may still make
    genCalls,     \* task id -> number of llm.generate calls made
    requeues,     \* task id -> number of enqueues made by execute_task
    completions,  \* task id -> number of commits of status completed
    escaped,      \* the task ids for which an exception left execute_task
    now,          \* the clock read by _utcnow() where times are compared
    api,          \* API requests in progress: [pc, op, id, task, dirty, ret]
    sched,        \* scheduler ticks: [pc, sel, claimed] (position, rows locked, claimed_ids)
    budget,       \* requests with an effect the clients may still make: [create, cancel,
                  \* retry]; observe: whether the observer keeps the responses
    dispatches,   \* the observer's counters, task id -> number, of the enqueues made by
                  \* api_create_task (create), api_retry_task (retry) and the scheduler
                  \* (sched), and of the scheduler's committed claims (claims)
    scheduler,    \* scheduler processes, the state of main(): [backoff_seconds, slept,
                  \* last, streak, running] (slept: the last sleep without its jitter;
                  \* last: the outcome of the last tick; streak: OperationalErrors
                  \* since the last successful tick)
    cancelLog     \* the observer's record of the commits of cancel_task since the last
                  \* retry reset: early, the ids cancelled over a stored scheduled or
                  \* queued; midrun, the ids cancelled while a generation call was in flight

vars == <<tasks, queue, ex, genMode, dupLeft, genCalls, requeues, completions, escaped,
          now, api, sched, budget, dispatches, scheduler, cancelLog>>

execVars == <<genMode, dupLeft, genCalls, requeues, completions, escaped>>

envVars == <<now, api, sched, budget, dispatches, scheduler, cancelLog>>

\* ----------------------------------------------------------- session object
\* obj.attr = v on a loaded object: the column is part of the next UPDATE only when
\* the value differs from the loaded one.
SetAttr(s, col, v) ==
    [task |-> [s.task EXCEPT ![col] = v],
     dirty |-> IF v # s.task[col] THEN s.dirty \cup {col} ELSE s.dirty]

\* obj.attr = <a value measured now> (a timestamp, a latency): it differs from any
\* stored value.
SetFresh(s, col, v) ==
    [task |-> [s.task EXCEPT ![col] = v], dirty |-> s.dirty \cup {col}]

\* obj.finished_at = obj.finished_at or <now>
StampFinished(s) ==
    IF s.task.finished_at # NULL THEN s ELSE SetFresh(s, "finished_at", "ts")

\* db.commit(): UPDATE of the changed columns of the row.
Flush(row, task, dirty) ==
    [c \in DOMAIN row |-> IF c \in dirty THEN task[c] ELSE row[c]]

Loaded(row) == [task |-> row, dirty |-> {}]

\* After db.commit() the session object is expired: its attributes are unloaded
\* until the next refresh.  The same stands for an object about to be refreshed.
Expired == [task |-> NoTask, dirty |-> {}]

\* The counters of the observer map task ids to numbers; a specification that does
\* not observe them starts them at Untracked, the map of no id, where they stay.
Untracked == [id \in {} |-> 0]

Count(f, id) == IF id \in DOMAIN f THEN [f EXCEPT ![id] = @ + 1] ELSE f

\* The observer counts an enqueue of the task id made by the origin.
Dispatched(origin, id) == dispatches' = [dispatches EXCEPT ![origin] = Count(@, id)]

Idle == [pc |-> "idle", id |-> "none", task |-> NoTask, dirty |-> {}]

When(id) == CHOOSE t \in tasks[id].scheduled_for : TRUE

\* A row selected FOR UPDATE by a scheduler tick stays locked until the tick commits:
\* an UPDATE of it by another session waits.
Locked(id) == \E s \in DOMAIN sched : sched[s].pc = "commit" /\ id \in sched[s].sel

At(e, pc) == ex[e].pc = pc

Goto(e, pc, s) ==
    ex' = [ex EXCEPT ![e] = [pc |-> pc, id |-> ex[e].id, task |-> s.task, dirty |-> s.dirty]]

Return(e) == ex' = [ex EXCEPT ![e] = Idle]

Committed(e) == [tasks EXCEPT ![ex[e].id] = Flush(@, ex[e].task, ex[e].dirty)]

\* ------------------------------------------------------------- execute_task
\* Variant of MarkRunning that does not count the attempt.
MarkRunning_uncounted(s) ==
    LET b == SetAttr(s, "status", "running")
        c == SetAttr(b, "error", NULL)
    IN  IF c.task.started_at = NULL THEN SetFresh(c, "started_at", "ts") ELSE c

\* jobs.py 65-69: the local changes of the transition to running.
MarkRunning(s) ==
    LET a == SetAttr(s, "attempts", s.task.attempts + 1)
        b == SetAttr(a, "status", "running")
        c == SetAttr(b, "error", NULL)
    IN  IF c.task.started_at = NULL THEN SetFresh(c, "started_at", "ts") ELSE c

\* Variant of Enter whose entry check lets completed and failed tasks through.
Enter_cancelled_only(e, id) ==
    IF id \notin DOMAIN tasks
    THEN Return(e)
    ELSE IF tasks[id].status \in {"cancelled", "scheduled"}
    THEN Return(e)
    ELSE ex' = [ex EXCEPT ![e] =
                 LET s == MarkRunning(Loaded(tasks[id]))
                 IN  [pc |-> "commit_running", id |-> id, task |-> s.task, dirty |-> s.dirty]]

\* jobs.py 41-69: db.get and the entry checks, then the local changes up to the commit.
Enter(e, id) ==
    IF id \notin DOMAIN tasks
    THEN Return(e)
    ELSE IF tasks[id].status \in Terminal \/ tasks[id].status = "scheduled"
    THEN Return(e)
    ELSE ex' = [ex EXCEPT ![e] =
                 LET s == MarkRunning(Loaded(tasks[id]))
                 IN  [pc |-> "commit_running", id |-> id, task |-> s.task, dirty |-> s.dirty]]

\* The transport delivers a message to a worker, which calls execute_task(id).
execute_task(e, id) ==
    /\ At(e, "idle")
    /\ queue[id] > 0
    /\ queue' = [queue EXCEPT ![id] = @ - 1]
    /\ Enter(e, id)
    /\ UNCHANGED <<tasks, genMode, dupLeft, genCalls, requeues, completions, escaped, envVars>>

\* At-least-once delivery: a message is handed to a worker and delivered again later.
execute_task_duplicate(e, id) ==
    /\ At(e, "idle")
    /\ dupLeft > 0
    /\ queue[id] > 0
    /\ dupLeft' = dupLeft - 1
    /\ Enter(e, id)
    /\ UNCHANGED <<tasks, queue, genMode, genCalls, requeues, completions, escaped, envVars>>

\* At-least-once delivery: the message of a task that has reached a terminal status
\* is delivered once more, while no executor is at work (jobs.py 41-47).
execute_task_redelivered(e, id) ==
    /\ \A o \in DOMAIN ex : At(o, "idle")
    /\ id \in DOMAIN tasks
    /\ tasks[id].status \in Terminal
    /\ Enter(e, id)
    /\ UNCHANGED <<tasks, queue, genMode, dupLeft, genCalls, requeues, completions, escaped, envVars>>

\* Variant of execute_task_stray without the early returns of jobs.py 43-44 and
\* 51-52: the call goes on to the transition to running.
execute_task_stray_runs(e, id) ==
    /\ At(e, "idle")
    /\ id \in DOMAIN tasks => tasks[id].status = "scheduled"
    /\ dispatches.stray[id] < MaxStray
    /\ dispatches' = [dispatches EXCEPT !.stray[id] = @ + 1]
    /\ ex' = [ex EXCEPT ![e] =
                LET s == MarkRunning(Loaded(IF id \in DOMAIN tasks THEN tasks[id]
                                            ELSE Task("queued", 0, DEFAULT_MAX_ATTEMPTS, {})))
                IN  [pc |-> "commit_running", id |-> id, task |-> s.task, dirty |-> s.dirty]]
    /\ UNCHANGED <<tasks, queue, execVars, scheduler, now, api, sched, budget, cancelLog>>

\* jobs.py 41-52: execute_task is called with the id of a task that is scheduled or
\* with an id the store does not have, as a direct call (tests/test_worker_jobs.py
\* calls the function itself) or for a message some other producer put on the
\* channel; the observer counts the call.
execute_task_stray(e, id) ==
    /\ At(e, "idle")
    /\ id \in DOMAIN tasks => tasks[id].status = "scheduled"
    /\ dispatches.stray[id] < MaxStray
    /\ dispatches' = [dispatches EXCEPT !.stray[id] = @ + 1]
    /\ Enter(e, id)
    /\ UNCHANGED <<tasks, queue, execVars, scheduler, now, api, sched, budget, cancelLog>>

\* jobs.py 70: db.commit() of the transition to running.
execute_task_commit_running(e) ==
    /\ At(e, "commit_running")
    /\ ~Locked(ex[e].id)
    /\ tasks' = Committed(e)
    /\ Goto(e, "refresh_running", Expired)
    /\ UNCHANGED <<queue, genMode, dupLeft, genCalls, requeues, completions, escaped, envVars>>

\* jobs.py 71-85: db.refresh, the cancellation check, then the call of llm.generate.
execute_task_refresh_running(e) ==
    /\ At(e, "refresh_running")
    /\ LET s == Loaded(tasks[ex[e].id])
       IN  IF s.task.status = "cancelled"
           THEN /\ IF s.task.finished_at = NULL
                   THEN Goto(e, "commit_cancelled", StampFinished(s))
                   ELSE Return(e)
                /\ UNCHANGED genCalls
           ELSE /\ Goto(e, "generating", s)
                /\ genCalls' = Count(genCalls, ex[e].id)
    /\ UNCHANGED <<tasks, queue, genMode, dupLeft, requeues, completions, escaped, envVars>>

\* jobs.py 85-86: llm.generate returns the text.
execute_task_generate_returns(e) ==
    /\ At(e, "generating")
    /\ genMode # "fail"
    /\ Goto(e, "refresh_done", Expired)
    /\ UNCHANGED <<tasks, queue, genMode, dupLeft, genCalls, requeues, completions, escaped, envVars>>

\* Variant of HandleFailure that puts the task back while attempts <= max_attempts.
HandleFailure_inclusive(s) ==
    IF s.task.status = "cancelled"
    THEN [pc |-> "commit_cancelled", s |-> StampFinished(s)]
    ELSE LET a == SetAttr(s, "error", "err")
             b == SetFresh(a, "finished_at", "ts")
         IN  IF b.task.attempts <= b.task.max_attempts
             THEN [pc |-> "commit_requeue", s |-> SetAttr(b, "status", "queued")]
             ELSE [pc |-> "commit_failed", s |-> SetAttr(b, "status", "failed")]

\* jobs.py 116-140: the failure handler up to its commit.  db.get returns the object
\* the session already holds (loaded by the refresh of line 71): no row is read.
HandleFailure(s) ==
    IF s.task.status = "cancelled"
    THEN [pc |-> "commit_cancelled", s |-> StampFinished(s)]
    ELSE LET a == SetAttr(s, "error", "err")
             b == SetFresh(a, "finished_at", "ts")
         IN  IF b.task.attempts < b.task.max_attempts
             THEN [pc |-> "commit_requeue", s |-> SetAttr(b, "status", "queued")]
             ELSE [pc |-> "commit_failed", s |-> SetAttr(b, "status", "failed")]

\* Variant of execute_task_generate_raises without the except clause of line 111.
execute_task_generate_raises_uncaught(e) ==
    /\ At(e, "generating")
    /\ genMode # "ok"
    /\ escaped' = escaped \cup {ex[e].id}
    /\ Return(e)
    /\ UNCHANGED <<tasks, queue, genMode, dupLeft, genCalls, requeues, completions, envVars>>

\* jobs.py 85, 111-135: llm.generate raises.
execute_task_generate_raises(e) ==
    /\ At(e, "generating")
    /\ genMode # "ok"
    /\ LET h == HandleFailure([task |-> ex[e].task, dirty |-> ex[e].dirty])
       IN  Goto(e, h.pc, h.s)
    /\ UNCHANGED <<tasks, queue, genMode, dupLeft, genCalls, requeues, completions, escaped, envVars>>

\* Variant of MarkCompleted that clears started_at.
MarkCompleted_clears_started(s) ==
    LET a == SetAttr(s, "output", "text")
        b == SetAttr(a, "error", NULL)
        c == SetAttr(b, "llm_provider", "llm")
        d == SetFresh(c, "latency_ms", "ms")
        f == SetFresh(d, "finished_at", "ts")
    IN  SetAttr(SetAttr(f, "started_at", NULL), "status", "completed")

\* jobs.py 136, 141, 143-148: the handler's db.commit() raises (the store is not
\* reachable): nothing is written, the exception passes the "finally: pass" of
\* line 143 and the db.close() of line 148 and leaves execute_task.
execute_task_commit_raises(e) ==
    /\ ex[e].pc \in {"commit_requeue", "commit_failed"}
    /\ escaped' = escaped \cup {ex[e].id}
    /\ Return(e)
    /\ UNCHANGED <<tasks, queue, genMode, dupLeft, genCalls, requeues, completions, envVars>>

\* jobs.py 137-138, 143-148: db.refresh or queue.enqueue raises after the commit of
\* status queued: no message is sent and the exception leaves execute_task.
execute_task_enqueue_raises(e) ==
    /\ At(e, "enqueue")
    /\ escaped' = escaped \cup {ex[e].id}
    /\ Return(e)
    /\ UNCHANGED <<tasks, queue, genMode, dupLeft, genCalls, requeues, completions, envVars>>

\* jobs.py 102-108: the local changes of the success path.
MarkCompleted(s) ==
    LET a == SetAttr(s, "output", "text")
        b == SetAttr(a, "error", NULL)
        c == SetAttr(b, "llm_provider", "llm")
        d == SetFresh(c, "latency_ms", "ms")
        f == SetFresh(d, "finished_at", "ts")
    IN  SetAttr(f, "status", "completed")

\* Variant of execute_task_refresh_done without the cancellation check of lines 94-97.
execute_task_refresh_done_unchecked(e) ==
    /\ At(e, "refresh_done")
    /\ Goto(e, "commit_success", MarkCompleted(Loaded(tasks[ex[e].id])))
    /\ UNCHANGED <<tasks, queue, genMode, dupLeft, genCalls, requeues, completions, escaped, envVars>>

\* jobs.py 91-108: db.refresh after generation, the cancellation check, the success fields.
execute_task_refresh_done(e) ==
    /\ At(e, "refresh_done")
    /\ LET s == Loaded(tasks[ex[e].id])
       IN  IF s.task.status = "cancelled"
           THEN IF s.task.finished_at = NULL
                THEN Goto(e, "commit_cancelled", StampFinished(s))
                ELSE Return(e)
           ELSE Goto(e, "commit_success", MarkCompleted(s))
    /\ UNCHANGED <<tasks, queue, genMode, dupLeft, genCalls, requeues, completions, escaped, envVars>>

\* jobs.py 109: db.commit() of the success.
execute_task_commit_success(e) ==
    /\ At(e, "commit_success")
    /\ ~Locked(ex[e].id)
    /\ tasks' = Committed(e)
    /\ completions' = Count(completions, ex[e].id)
    /\ Return(e)
    /\ UNCHANGED <<queue, genMode, dupLeft, genCalls, requeues, escaped, envVars>>

\* jobs.py 58, 77, 96, 123: db.commit() of finished_at on a cancelled task.
execute_task_commit_cancelled(e) ==
    /\ At(e, "commit_cancelled")
    /\ ~Locked(ex[e].id)
    /\ tasks' = Committed(e)
    /\ Return(e)
    /\ UNCHANGED <<queue, genMode, dupLeft, genCalls, requeues, completions, escaped, envVars>>

\* jobs.py 136: db.commit() of the attempt put back to queued.
execute_task_commit_requeue(e) ==
    /\ At(e, "commit_requeue")
    /\ ~Locked(ex[e].id)
    /\ tasks' = Committed(e)
    /\ Goto(e, "enqueue", Expired)
    /\ UNCHANGED <<queue, genMode, dupLeft, genCalls, requeues, completions, escaped, envVars>>

\* Variant of execute_task_enqueue that returns without the queue.enqueue of line 138.
execute_task_enqueue_dropped(e) ==
    /\ At(e, "enqueue")
    /\ Return(e)
    /\ UNCHANGED <<tasks, queue, genMode, dupLeft, genCalls, requeues, completions, escaped, envVars>>

\* jobs.py 137-138: db.refresh, then queue.enqueue(execute_task, id).
execute_task_enqueue(e) ==
    /\ At(e, "enqueue")
    /\ queue' = [queue EXCEPT ![ex[e].id] = @ + 1]
    /\ requeues' = Count(requeues, ex[e].id)
    /\ Return(e)
    /\ UNCHANGED <<tasks, genMode, dupLeft, genCalls, completions, escaped, envVars>>

\* jobs.py 140-141: db.commit() of status failed.
execute_task_commit_failed(e) ==
    /\ At(e, "commit_failed")
    /\ ~Locked(ex[e].id)
    /\ tasks' = Committed(e)
    /\ Return(e)
    /\ UNCHANGED <<queue, genMode, dupLeft, genCalls, requeues, completions, escaped, envVars>>

\* --------------------------------------------------------------- API requests
ApiIdle == [pc |-> "idle", id |-> "none", task |-> NoTask, dirty |-> {}, ret |-> "none", arg |-> {}]

\* The request returns; the observer keeps the response where it observes them.
Respond(c, id, ret, task) ==
    api' = [api EXCEPT ![c] =
              IF budget.observe
              THEN [pc |-> "idle", id |-> id, task |-> task, dirty |-> {}, ret |-> ret,
                    arg |-> api[c].arg]
              ELSE ApiIdle]

\* The request goes on to its next statement; arg is the payload it came with.
Request(c, pc, id, s, arg) ==
    api' = [api EXCEPT ![c] = [pc |-> pc, id |-> id, task |-> s.task, dirty |-> s.dirty,
                               ret |-> "none", arg |-> arg]]

Pending(c, pc, id, s) == Request(c, pc, id, s, api[c].arg)

Spend(op) == budget' = [budget EXCEPT ![op] = @ - 1]

\* Variant of MarkCancelled that does not stamp finished_at.
MarkCancelled_unstamped(s) == SetAttr(s, "status", "cancelled")

\* crud.py 179-180: the local changes of a cancellation.
MarkCancelled(s) == StampFinished(SetAttr(s, "status", "cancelled"))

\* crud.py 170-180, main.py 201-203: get_task, the terminal check, the local changes.
cancel_task(id) ==
    /\ api["cancel"].pc = "idle"
    /\ IF id \notin DOMAIN tasks
       THEN Respond("cancel", id, "404", NoTask) /\ UNCHANGED budget
       ELSE IF tasks[id].status \in Terminal
       THEN Respond("cancel", id, "ok", tasks[id]) /\ UNCHANGED budget
       ELSE /\ budget.cancel > 0
            /\ Spend("cancel")
            /\ Pending("cancel", "commit", id, MarkCancelled(Loaded(tasks[id])))
    /\ UNCHANGED <<tasks, queue, ex, execVars, scheduler, now, sched, dispatches, cancelLog>>

\* crud.py 182-184: db.commit(), db.refresh, return task.
cancel_task_commit ==
    LET c == api["cancel"]
    IN  /\ c.pc = "commit"
        /\ ~Locked(c.id)
        /\ tasks' = [tasks EXCEPT ![c.id] = Flush(@, c.task, c.dirty)]
        /\ Respond("cancel", c.id, "ok", tasks'[c.id])
        /\ cancelLog' = [early |-> IF tasks[c.id].status \in {"scheduled", "queued"}
                                   THEN cancelLog.early \cup {c.id}
                                   ELSE cancelLog.early,
                         midrun |-> IF \E e \in DOMAIN ex : ex[e].pc = "generating" /\ ex[e].id = c.id
                                    THEN cancelLog.midrun \cup {c.id}
                                    ELSE cancelLog.midrun]
        /\ UNCHANGED <<queue, ex, execVars, scheduler, now, sched, budget, dispatches>>

\* Variant of ResetForRetry that ignores the max_attempts of the payload.
ResetForRetry_no_override(s, payload) ==
    LET a == SetAttr(s, "status", "queued")
        b == SetAttr(a, "attempts", 0)
        d == SetAttr(b, "error", NULL)
        f == SetAttr(d, "output", NULL)
        g == SetAttr(f, "started_at", NULL)
        h == SetAttr(g, "finished_at", NULL)
        i == SetAttr(h, "llm_provider", NULL)
    IN  SetAttr(i, "latency_ms", NULL)

\* main.py 165-177: the reset of a failed task; payload is {} or {max_attempts}.
ResetForRetry(s, payload) ==
    LET a == SetAttr(s, "status", "queued")
        b == SetAttr(a, "attempts", 0)
        c == IF payload = {} THEN b
             ELSE SetAttr(b, "max_attempts", CHOOSE n \in payload : TRUE)
        d == SetAttr(c, "error", NULL)
        f == SetAttr(d, "output", NULL)
        g == SetAttr(f, "started_at", NULL)
        h == SetAttr(g, "finished_at", NULL)
        i == SetAttr(h, "llm_provider", NULL)
    IN  SetAttr(i, "latency_ms", NULL)

\* Variant of api_retry_task that also accepts a cancelled task.
api_retry_task_lenient(id, payload) ==
    /\ api["retry"].pc = "idle"
    /\ IF id \notin DOMAIN tasks
       THEN Respond("retry", id, "404", NoTask) /\ UNCHANGED budget
       ELSE IF tasks[id].status \notin {"failed", "cancelled"}
       THEN Respond("retry", id, "409", NoTask) /\ UNCHANGED budget
       ELSE /\ budget.retry > 0
            /\ Spend("retry")
            /\ Request("retry", "commit", id, ResetForRetry(Loaded(tasks[id]), payload), payload)
    /\ UNCHANGED <<tasks, queue, ex, execVars, scheduler, now, sched, dispatches, cancelLog>>

\* main.py 157-177: get_task, the 404 and 409 outcomes, the local reset.
api_retry_task(id, payload) ==
    /\ api["retry"].pc = "idle"
    /\ IF id \notin DOMAIN tasks
       THEN Respond("retry", id, "404", NoTask) /\ UNCHANGED budget
       ELSE IF tasks[id].status # "failed"
       THEN Respond("retry", id, "409", NoTask) /\ UNCHANGED budget
       ELSE /\ budget.retry > 0
            /\ Spend("retry")
            /\ Request("retry", "commit", id, ResetForRetry(Loaded(tasks[id]), payload), payload)
    /\ UNCHANGED <<tasks, queue, ex, execVars, scheduler, now, sched, dispatches, cancelLog>>

\* main.py 179-180: db.commit(), db.refresh.
api_retry_task_commit ==
    LET c == api["retry"]
    IN  /\ c.pc = "commit"
        /\ ~Locked(c.id)
        /\ tasks' = [tasks EXCEPT ![c.id] = Flush(@, c.task, c.dirty)]
        /\ Pending("retry", "enqueue", c.id, Loaded(tasks'[c.id]))
        /\ cancelLog' = [early |-> cancelLog.early \ {c.id}, midrun |-> cancelLog.midrun \ {c.id}]
        /\ UNCHANGED <<queue, ex, execVars, scheduler, now, sched, budget, dispatches>>

\* main.py 182-183: queue.enqueue(execute_task, id), return task.
api_retry_task_enqueue ==
    LET c == api["retry"]
    IN  /\ c.pc = "enqueue"
        /\ queue' = [queue EXCEPT ![c.id] = @ + 1]
        /\ Respond("retry", c.id, "ok", c.task)
        /\ Dispatched("retry", c.id)
        /\ UNCHANGED <<tasks, ex, execVars, scheduler, now, sched, budget, cancelLog>>

\* Variant of _initial_status that also schedules a task whose time is now.
_initial_status_inclusive(scheduled_for, t) ==
    IF scheduled_for = {} THEN "queued"
    ELSE IF \E sf \in scheduled_for : sf >= t THEN "scheduled" ELSE "queued"

\* crud.py 39-50: scheduled only when scheduled_for is in the future.
_initial_status(scheduled_for, t) ==
    IF scheduled_for = {} THEN "queued"
    ELSE IF \E sf \in scheduled_for : sf > t THEN "scheduled" ELSE "queued"

NewId == CHOOSE id \in TaskIds : id \notin DOMAIN tasks

\* main.py 66, crud.py 61-70: the insert of a new task, committed.
api_create_task(scheduled_for) ==
    /\ api["create"].pc = "idle"
    /\ budget.create > 0
    /\ TaskIds \ DOMAIN tasks # {}
    /\ Spend("create")
    /\ LET row == Task(_initial_status(scheduled_for, now), 0, DEFAULT_MAX_ATTEMPTS, scheduled_for)
       IN  /\ tasks' = [id \in DOMAIN tasks \cup {NewId} |-> IF id = NewId THEN row ELSE tasks[id]]
           /\ Pending("create", "refresh", NewId, Expired)
    /\ UNCHANGED <<queue, ex, execVars, scheduler, now, sched, dispatches, cancelLog>>

\* crud.py 71-72, main.py 70: db.refresh of the new task, then the test of its status.
api_create_task_refresh ==
    LET c == api["create"]
    IN  /\ c.pc = "refresh"
        /\ IF tasks[c.id].status = "queued"
           THEN Pending("create", "enqueue", c.id, Loaded(tasks[c.id]))
           ELSE Respond("create", c.id, "ok", tasks[c.id])
        /\ UNCHANGED <<tasks, queue, ex, execVars, scheduler, now, sched, budget, dispatches, cancelLog>>

\* main.py 71-73: queue.enqueue(execute_task, id) for an immediate task.
api_create_task_enqueue ==
    LET c == api["create"]
    IN  /\ c.pc = "enqueue"
        /\ queue' = [queue EXCEPT ![c.id] = @ + 1]
        /\ Respond("create", c.id, "ok", c.task)
        /\ Dispatched("create", c.id)
        /\ UNCHANGED <<tasks, ex, execVars, scheduler, now, sched, budget, cancelLog>>

\* crud.py 126-132: the prompt of a chained task, made of the parent's output and
\* the instruction of the request.
ChainPrompt(output, instruction) ==
    <<"Parent output:\n<<<\n", output, "\n>>>\n\nInstruction:\n", instruction, "\n">>

NewChildId == CHOOSE id \in ChildIds : id \notin DOMAIN tasks

\* main.py 119-124: get_task of the parent and the two checks.  Python's
\* "not parent.output" holds for None and for the empty string.
api_chain_task(id, scheduled_for) ==
    /\ api["chain"].pc = "idle"
    /\ IF id \notin DOMAIN tasks
       THEN Respond("chain", id, "404", NoTask) /\ UNCHANGED budget
       ELSE IF tasks[id].status # "completed" \/ tasks[id].output \in {NULL, ""}
       THEN Respond("chain", id, "409", NoTask) /\ UNCHANGED budget
       ELSE /\ budget.chain > 0
            /\ ChildIds \ DOMAIN tasks # {}
            /\ Spend("chain")
            /\ Request("chain", "commit", id, Loaded(tasks[id]), scheduled_for)
    /\ UNCHANGED <<tasks, queue, ex, execVars, scheduler, now, sched, dispatches, cancelLog>>

\* main.py 126-132, crud.py 126-151: create_chained_task builds the prompt from the
\* parent object the request loaded, inserts the child and commits.
api_chain_task_commit ==
    LET c == api["chain"]
        row == [Task(_initial_status(c.arg, now), 0, DEFAULT_MAX_ATTEMPTS, c.arg) EXCEPT
                   !.prompt = ChainPrompt(c.task.output, "instruction"),
                   !.parent_task_id = c.id]
    IN  /\ c.pc = "commit"
        /\ tasks' = [id \in DOMAIN tasks \cup {NewChildId} |->
                       IF id = NewChildId THEN row ELSE tasks[id]]
        /\ Pending("chain", "refresh", NewChildId, Expired)
        /\ UNCHANGED <<queue, ex, execVars, scheduler, now, sched, budget, dispatches, cancelLog>>

\* Variant of api_chain_task_refresh without the test of main.py 135: the child is
\* enqueued whatever its status.
api_chain_task_refresh_untested ==
    LET c == api["chain"]
    IN  /\ c.pc = "refresh"
        /\ Pending("chain", "enqueue", c.id, Loaded(tasks[c.id]))
        /\ UNCHANGED <<tasks, queue, ex, execVars, scheduler, now, sched, budget, dispatches, cancelLog>>

\* crud.py 152-153, main.py 135: db.refresh of the child, then the test of its status.
api_chain_task_refresh ==
    LET c == api["chain"]
    IN  /\ c.pc = "refresh"
        /\ IF tasks[c.id].status = "queued"
           THEN Pending("chain", "enqueue", c.id, Loaded(tasks[c.id]))
           ELSE Respond("chain", c.id, "ok", tasks[c.id])
        /\ UNCHANGED <<tasks, queue, ex, execVars, scheduler, now, sched, budget, dispatches, cancelLog>>

\* main.py 136-137: queue.enqueue(execute_task, child id), return child.
api_chain_task_enqueue ==
    LET c == api["chain"]
    IN  /\ c.pc = "enqueue"
        /\ queue' = [queue EXCEPT ![c.id] = @ + 1]
        /\ Respond("chain", c.id, "ok", c.task)
        /\ Dispatched("chain", c.id)
        /\ UNCHANGED <<tasks, ex, execVars, scheduler, now, sched, budget, cancelLog>>

\* Time passes (observed while a task waits for its time).
Tick ==
    /\ now < MaxTime
    /\ \E id \in DOMAIN tasks : tasks[id].status = "scheduled" /\ When(id) > now
    /\ now' = now + 1
    /\ UNCHANGED <<tasks, queue, ex, execVars, scheduler, api, sched, budget, dispatches, cancelLog>>

\* ------------------------------------------------------------ scheduler tick
SchedIdle == [pc |-> "idle", sel |-> {}, claimed |-> <<>>]

\* Variant of Due for a SELECT without FOR UPDATE SKIP LOCKED.
Due_unlocked ==
    {id \in DOMAIN tasks :
          /\ tasks[id].status = "scheduled"
          /\ tasks[id].scheduled_for # {}
          /\ When(id) <= now}

\* scheduler.py 90-98: the rows the SELECT ... FOR UPDATE SKIP LOCKED can see.
Due == {id \in DOMAIN tasks :
          /\ tasks[id].status = "scheduled"
          /\ tasks[id].scheduled_for # {}
          /\ When(id) <= now
          /\ ~Locked(id)}

Min(a, b) == IF a <= b THEN a ELSE b

RECURSIVE Take_descending(_, _)
\* Variant of Take for a query ordered by scheduled_for descending.
Take_descending(S, n) ==
    IF n = 0 \/ S = {} THEN {<<>>}
    ELSE UNION {{<<f>> \o q : q \in Take_descending(S \ {f}, n - 1)} :
                   f \in {id \in S : \A o \in S : When(id) >= When(o)}}

RECURSIVE Take(_, _)
\* scheduler.py 95-97: order_by(scheduled_for.asc()).limit(n) over the rows S, as the
\* sequences the query can return (rows of equal scheduled_for come in any order).
Take(S, n) ==
    IF n = 0 \/ S = {} THEN {<<>>}
    ELSE UNION {{<<f>> \o q : q \in Take(S \ {f}, n - 1)} :
                   f \in {id \in S : \A o \in S : When(id) <= When(o)}}

\* scheduler.py 90-100: the first BATCH_SIZE due rows by ascending scheduled_for.
Batches == Take(Due, BATCH_SIZE)

Range(q) == {q[i] : i \in DOMAIN q}

\* scheduler.py 84-111: the select and the claim loop (the loop sees the rows as
\* they were selected, so each is still scheduled).  A tick that finds no due row
\* commits nothing and enqueues nothing.
claim_and_enqueue_due_tasks(s) ==
    /\ sched[s].pc = "idle"
    /\ IF Due = {}
       THEN UNCHANGED sched
       ELSE \E q \in Batches :
              sched' = [sched EXCEPT ![s] = [pc |-> "commit", sel |-> Range(q), claimed |-> q]]
    /\ UNCHANGED <<tasks, queue, ex, execVars, scheduler, now, api, budget, dispatches, cancelLog>>

\* scheduler.py 114-117: db.commit() of the claims; the row locks are released.
claim_and_enqueue_due_tasks_commit(s) ==
    /\ sched[s].pc = "commit"
    /\ tasks' = [id \in DOMAIN tasks |->
                   IF id \in sched[s].sel THEN [tasks[id] EXCEPT !.status = "queued"]
                   ELSE tasks[id]]
    /\ sched' = [sched EXCEPT ![s] = [pc |-> "enqueue", sel |-> {}, claimed |-> @.claimed]]
    /\ dispatches' = [dispatches EXCEPT !.claims =
                        [id \in DOMAIN @ |-> IF id \in sched[s].sel THEN @[id] + 1 ELSE @[id]]]
    /\ UNCHANGED <<queue, ex, execVars, scheduler, now, api, budget, cancelLog>>

\* Variant of claim_and_enqueue_due_tasks_commit_raises in which the failure of the
\* commit is swallowed and the enqueue loop runs over claimed_ids.
claim_and_enqueue_due_tasks_commit_raises_swallowed(s) ==
    /\ sched[s].pc = "commit"
    /\ \A id \in sched[s].sel : id \in DOMAIN dispatches.aborts => dispatches.aborts[id] < MaxAbort
    /\ sched' = [sched EXCEPT ![s] = [pc |-> "enqueue", sel |-> {}, claimed |-> @.claimed]]
    /\ dispatches' = [dispatches EXCEPT !.aborts =
                        [id \in DOMAIN @ |-> IF id \in sched[s].sel THEN @[id] + 1 ELSE @[id]]]
    /\ UNCHANGED <<tasks, queue, ex, execVars, scheduler, now, api, budget, cancelLog>>

\* scheduler.py 114-117: db.commit() raises; db.close() rolls the claims back and
\* releases the row locks, and the exception leaves the function before the
\* enqueue loop of lines 121-122.
claim_and_enqueue_due_tasks_commit_raises(s) ==
    /\ sched[s].pc = "commit"
    /\ \A id \in sched[s].sel : id \in DOMAIN dispatches.aborts => dispatches.aborts[id] < MaxAbort
    /\ sched' = [sched EXCEPT ![s] = SchedIdle]
    /\ dispatches' = [dispatches EXCEPT !.aborts =
                        [id \in DOMAIN @ |-> IF id \in sched[s].sel THEN @[id] + 1 ELSE @[id]]]
    /\ UNCHANGED <<tasks, queue, ex, execVars, scheduler, now, api, budget, cancelLog>>

\* Variant of claim_and_enqueue_due_tasks_enqueue that returns after the first id.
claim_and_enqueue_due_tasks_enqueue_first_only(s) ==
    /\ sched[s].pc = "enqueue"
    /\ IF sched[s].claimed = <<>>
       THEN /\ sched' = [sched EXCEPT ![s] = SchedIdle]
            /\ UNCHANGED <<queue, dispatches>>
       ELSE /\ queue' = [queue EXCEPT ![Head(sched[s].claimed)] = @ + 1]
            /\ Dispatched("sched", Head(sched[s].claimed))
            /\ sched' = [sched EXCEPT ![s] = SchedIdle]
    /\ UNCHANGED <<tasks, ex, execVars, scheduler, now, api, budget, cancelLog>>

\* scheduler.py 121-124: queue.enqueue for each claimed id, then return.
claim_and_enqueue_due_tasks_enqueue(s) ==
    /\ sched[s].pc = "enqueue"
    /\ IF sched[s].claimed = <<>>
       THEN /\ sched' = [sched EXCEPT ![s] = SchedIdle]
            /\ UNCHANGED <<queue, dispatches>>
       ELSE /\ queue' = [queue EXCEPT ![Head(sched[s].claimed)] = @ + 1]
            /\ Dispatched("sched", Head(sched[s].claimed))
            /\ sched' = [sched EXCEPT ![s].claimed = Tail(@)]
    /\ UNCHANGED <<tasks, ex, execVars, scheduler, now, api, budget, cancelLog>>

\* Variant of claim_and_enqueue_due_tasks_crash in which the process that comes up
\* again resumes the enqueue loop with the ids the dead one had claimed.
claim_and_enqueue_due_tasks_crash_resumed(s) ==
    /\ sched[s].pc = "enqueue"
    /\ sched[s].claimed # <<>>
    /\ dispatches.lost[Head(sched[s].claimed)] = 0
    /\ dispatches' = [dispatches EXCEPT !.lost =
                        [id \in DOMAIN @ |->
                            IF id \in Range(sched[s].claimed) THEN @[id] + 1 ELSE @[id]]]
    /\ UNCHANGED <<tasks, queue, sched, ex, execVars, scheduler, now, api, budget, cancelLog>>

\* scheduler.py 72-76, 114-122: the process dies after the commit of line 114 and
\* before queue.enqueue of line 122 ran for the ids it still holds. The claimed list
\* is a local of the dead process; the process that takes its place starts from
\* main() with nothing claimed.
claim_and_enqueue_due_tasks_crash(s) ==
    /\ sched[s].pc = "enqueue"
    /\ sched[s].claimed # <<>>
    /\ dispatches' = [dispatches EXCEPT !.lost =
                        [id \in DOMAIN @ |->
                            IF id \in Range(sched[s].claimed) THEN @[id] + 1 ELSE @[id]]]
    /\ sched' = [sched EXCEPT ![s] = SchedIdle]
    /\ UNCHANGED <<tasks, queue, ex, execVars, scheduler, now, api, budget, cancelLog>>

\* scheduler.py 134: main() before its first tick.
MainStart ==
    [backoff_seconds |-> DB_ERROR_BACKOFF_MIN_SECONDS, slept |-> 0, last |-> "none",
     streak |-> 0, running |-> TRUE]

Max(a, b) == IF a >= b THEN a ELSE b

\* The ways a call of claim_and_enqueue_due_tasks() ends for main().
Outcomes == {"ok", "OperationalError", "ProgrammingError", "Exception"}

\* Variant of main whose backoff doubles without the cap of line 152.
main_uncapped(s, outcome) ==
    LET m == scheduler[s]
    IN  /\ m.running
        /\ outcome = "OperationalError" => m.streak < MaxStreak
        /\ scheduler' = [scheduler EXCEPT ![s] =
              CASE outcome = "ok" ->
                     [m EXCEPT !.backoff_seconds = DB_ERROR_BACKOFF_MIN_SECONDS,
                               !.slept = POLL_SECONDS, !.last = outcome, !.streak = 0]
                [] outcome = "OperationalError" ->
                     [m EXCEPT !.slept = m.backoff_seconds,
                               !.backoff_seconds = m.backoff_seconds * 2,
                               !.last = outcome, !.streak = m.streak + 1]
                [] outcome = "ProgrammingError" ->
                     [m EXCEPT !.slept = Max(POLL_SECONDS, 3), !.last = outcome]
                [] OTHER ->
                     [m EXCEPT !.slept = POLL_SECONDS, !.last = outcome]]
        /\ UNCHANGED <<tasks, queue, ex, execVars, now, api, sched, budget, dispatches, cancelLog>>

\* scheduler.py 136-164: one iteration of the loop of main(), by the outcome of its
\* tick: the tick returns (138-145), raises OperationalError (147-152),
\* ProgrammingError (154-158) or another Exception (160-163).  Every branch sleeps
\* and goes back to the top of the loop.
main(s, outcome) ==
    LET m == scheduler[s]
    IN  /\ m.running
        /\ outcome = "OperationalError" => m.streak < MaxStreak
        /\ scheduler' = [scheduler EXCEPT ![s] =
              CASE outcome = "ok" ->
                     [m EXCEPT !.backoff_seconds = DB_ERROR_BACKOFF_MIN_SECONDS,
                               !.slept = POLL_SECONDS, !.last = outcome, !.streak = 0]
                [] outcome = "OperationalError" ->
                     [m EXCEPT !.slept = m.backoff_seconds,
                               !.backoff_seconds = Min(DB_ERROR_BACKOFF_MAX_SECONDS, m.backoff_seconds * 2),
                               !.last = outcome, !.streak = m.streak + 1]
                [] outcome = "ProgrammingError" ->
                     [m EXCEPT !.slept = Max(POLL_SECONDS, 3), !.last = outcome]
                [] OTHER ->
                     [m EXCEPT !.slept = POLL_SECONDS, !.last = outcome]]
        /\ UNCHANGED <<tasks, queue, ex, execVars, now, api, sched, budget, dispatches, cancelLog>>

Zero == [id \in Ids |-> 0]

\* ------------------------------------------------------------ specifications
ApiClients == {"create", "cancel", "retry", "chain"}

NoCancels == [early |-> {}, midrun |-> {}]

NoRequests == [create |-> 0, cancel |-> 0, retry |-> 0, chain |-> 0, observe |-> FALSE]

NoDispatches == [o \in {"create", "retry", "chain", "sched", "claims", "aborts", "lost", "stray"} |-> Zero]

UntrackedDispatches == [o \in {"create", "retry", "chain", "sched", "claims", "aborts", "lost", "stray"} |-> Untracked]

\* The whole system: an empty store, one task created through the API, workers,
\* cancel and retry requests, a scheduler, a generation capability that may fail.
\* Each message is delivered once here; SpecDup has the duplicate deliveries.
Init ==
    /\ tasks = [id \in {} |-> NoTask]
    /\ queue = Zero
    /\ ex = [e \in Execs |-> Idle]
    /\ genMode = "any"
    /\ dupLeft = 0
    /\ genCalls = Untracked
    /\ requeues = Untracked
    /\ completions = Untracked
    /\ escaped = {}
    /\ now = 0
    /\ api = [c \in ApiClients |-> ApiIdle]
    /\ sched = [s \in Scheds |-> SchedIdle]
    /\ budget = [create |-> 1, cancel |-> MaxCancel, retry |-> MaxRetry, chain |-> 0, observe |-> FALSE]
    /\ dispatches = UntrackedDispatches
    /\ scheduler = [s \in DOMAIN sched |-> MainStart]
    /\ cancelLog = NoCancels

Next ==
    \/ \E e \in DOMAIN ex, id \in Ids : execute_task(e, id)
    \/ \E e \in DOMAIN ex : execute_task_commit_running(e)
    \/ \E e \in DOMAIN ex : execute_task_refresh_running(e)
    \/ \E e \in DOMAIN ex : execute_task_generate_returns(e)
    \/ \E e \in DOMAIN ex : execute_task_generate_raises(e)
    \/ \E e \in DOMAIN ex : execute_task_refresh_done(e)
    \/ \E e \in DOMAIN ex : execute_task_commit_success(e)
    \/ \E e \in DOMAIN ex : execute_task_commit_cancelled(e)
    \/ \E e \in DOMAIN ex : execute_task_commit_requeue(e)
    \/ \E e \in DOMAIN ex : execute_task_enqueue(e)
    \/ \E e \in DOMAIN ex : execute_task_commit_failed(e)
    \/ \E id \in Ids : cancel_task(id)
    \/ cancel_task_commit
    \/ \E id \in Ids, payload \in {{}} \cup {{n} : n \in 1..MaxOverride} : api_retry_task(id, payload)
    \/ api_retry_task_commit
    \/ api_retry_task_enqueue
    \/ \E sf \in {{}, {MaxTime}} : api_create_task(sf)
    \/ api_create_task_refresh
    \/ api_create_task_enqueue
    \/ Tick
    \/ \E s \in DOMAIN sched : claim_and_enqueue_due_tasks(s)
    \/ \E s \in DOMAIN sched : claim_and_enqueue_due_tasks_commit(s)
    \/ \E s \in DOMAIN sched : claim_and_enqueue_due_tasks_enqueue(s)

Spec == Init /\ [][Next]_vars

\* Two deliveries of one fresh queued task, successful generation
\* (tests/test_worker_jobs.py 162-200).
InitRace ==
    /\ tasks = [id \in {"t1"} |-> Task("queued", 0, DEFAULT_MAX_ATTEMPTS, {})]
    /\ queue = [Zero EXCEPT !["t1"] = NumExecs]
    /\ ex = [e \in Execs |-> Idle]
    /\ genMode = "ok"
    /\ dupLeft = 0
    /\ genCalls = Zero
    /\ requeues = Zero
    /\ completions = Zero
    /\ escaped = {}
    /\ now = 0
    /\ api = [c \in ApiClients |-> ApiIdle]
    /\ sched = [s \in Scheds |-> SchedIdle]
    /\ budget = NoRequests
    /\ dispatches = NoDispatches
    /\ scheduler = [s \in DOMAIN sched |-> MainStart]
    /\ cancelLog = NoCancels

NextRace ==
    \/ \E e \in DOMAIN ex : execute_task(e, "t1")
    \/ \E e \in DOMAIN ex : execute_task_commit_running(e)
    \/ \E e \in DOMAIN ex : execute_task_refresh_running(e)
    \/ \E e \in DOMAIN ex : execute_task_generate_returns(e)
    \/ \E e \in DOMAIN ex : execute_task_refresh_done(e)
    \/ \E e \in DOMAIN ex : execute_task_commit_success(e)

SpecRace == InitRace /\ [][NextRace]_vars

\* One fresh task: a task inserted queued, with its one message, or scheduled, with
\* none, attempts = 0 and max_attempts = N, a generation capability
\* that always succeeds, always fails or does either, and a client that may cancel
\* (tests/test_worker_jobs.py 17-159, tests/test_api_tasks.py 72-86).
\* No retry request is made here, so a cancelled row always has finished_at set and
\* no executor has a finished_at of a cancelled task to commit.
InitSingle ==
    /\ \E st \in {"queued", "scheduled"}, n \in 1..MaxN :
          /\ tasks = [id \in {"t1"} |-> Task(st, 0, n, IF st = "queued" THEN {} ELSE {MaxTime})]
          /\ queue = [Zero EXCEPT !["t1"] = IF st = "queued" THEN 1 ELSE 0]
    /\ ex = [e \in Execs |-> Idle]
    /\ genMode \in {"ok", "fail", "any"}
    /\ dupLeft = 0
    /\ genCalls = Zero
    /\ requeues = Zero
    /\ completions = Zero
    /\ escaped = {}
    /\ now = 0
    /\ api = [c \in ApiClients |-> ApiIdle]
    /\ sched = [s \in Scheds |-> SchedIdle]
    /\ budget = [create |-> 0, cancel |-> 2, retry |-> 0, chain |-> 0, observe |-> TRUE]
    /\ dispatches = NoDispatches
    /\ scheduler = [s \in DOMAIN sched |-> MainStart]
    /\ cancelLog = NoCancels

NextSingle ==
    \/ \E e \in DOMAIN ex, id \in Ids : execute_task(e, id)
    \/ \E e \in DOMAIN ex, id \in Ids : execute_task_redelivered(e, id)
    \/ \E e \in DOMAIN ex : execute_task_commit_running(e)
    \/ \E e \in DOMAIN ex : execute_task_refresh_running(e)
    \/ \E e \in DOMAIN ex : execute_task_generate_returns(e)
    \/ \E e \in DOMAIN ex : execute_task_generate_raises(e)
    \/ \E e \in DOMAIN ex : execute_task_refresh_done(e)
    \/ \E e \in DOMAIN ex : execute_task_commit_success(e)
    \/ \E e \in DOMAIN ex : execute_task_commit_requeue(e)
    \/ \E e \in DOMAIN ex : execute_task_enqueue(e)
    \/ \E e \in DOMAIN ex : execute_task_commit_failed(e)
    \/ \E id \in Ids : cancel_task(id)
    \/ cancel_task_commit

SpecSingle == InitSingle /\ [][NextSingle]_vars

\* At-least-once delivery: one fresh queued task whose message the transport may
\* deliver more than once, to workers running concurrently.
InitDup ==
    /\ \E n \in 1..MaxN : tasks = [id \in {"t1"} |-> Task("queued", 0, n, {})]
    /\ queue = [Zero EXCEPT !["t1"] = 1]
    /\ ex = [e \in Execs |-> Idle]
    /\ genMode \in {"ok", "fail", "any"}
    /\ dupLeft = MaxDup
    /\ genCalls = Zero
    /\ requeues = Zero
    /\ completions = Zero
    /\ escaped = {}
    /\ now = 0
    /\ api = [c \in ApiClients |-> ApiIdle]
    /\ sched = [s \in Scheds |-> SchedIdle]
    /\ budget = NoRequests
    /\ dispatches = NoDispatches
    /\ scheduler = [s \in DOMAIN sched |-> MainStart]
    /\ cancelLog = NoCancels

NextDup ==
    \/ \E e \in DOMAIN ex, id \in Ids : execute_task(e, id)
    \/ \E e \in DOMAIN ex, id \in Ids : execute_task_duplicate(e, id)
    \/ \E e \in DOMAIN ex : execute_task_commit_running(e)
    \/ \E e \in DOMAIN ex : execute_task_refresh_running(e)
    \/ \E e \in DOMAIN ex : execute_task_generate_returns(e)
    \/ \E e \in DOMAIN ex : execute_task_generate_raises(e)
    \/ \E e \in DOMAIN ex : execute_task_refresh_done(e)
    \/ \E e \in DOMAIN ex : execute_task_commit_success(e)
    \/ \E e \in DOMAIN ex : execute_task_commit_requeue(e)
    \/ \E e \in DOMAIN ex : execute_task_enqueue(e)
    \/ \E e \in DOMAIN ex : execute_task_commit_failed(e)

SpecDup == InitDup /\ [][NextDup]_vars

\* More due tasks than one tick claims: BATCH_SIZE + 1 ids, in the order of their
\* creation.
BatchIds == <<"b01", "b02", "b03", "b04", "b05", "b06", "b07", "b08", "b09", "b10", "b11">>

\* scheduled_for of the i-th of them: not later than the initial time, the same for
\* two tasks in a row, later for the tasks created first.
BatchTime(i) == 1 - ((i + 1) \div 2)

\* The first k of these tasks are in the store, scheduled and due; task t1 is
\* scheduled for a later time.  Scheduler ticks only: nothing else touches a task.
InitBatch ==
    /\ \E k \in 1..Len(BatchIds) :
          tasks = [id \in {BatchIds[i] : i \in 1..k} \cup {"t1"} |->
                     IF id = "t1" THEN Task("scheduled", 0, DEFAULT_MAX_ATTEMPTS, {MaxTime})
                     ELSE Task("scheduled", 0, DEFAULT_MAX_ATTEMPTS,
                               {BatchTime(CHOOSE i \in 1..k : BatchIds[i] = id)})]
    /\ queue = [id \in Range(BatchIds) \cup Ids |-> 0]
    /\ ex = [e \in Execs |-> Idle]
    /\ genMode = "ok"
    /\ dupLeft = 0
    /\ genCalls = Untracked
    /\ requeues = Untracked
    /\ completions = Untracked
    /\ escaped = {}
    /\ now = 0
    /\ api = [c \in ApiClients |-> ApiIdle]
    /\ sched = [s \in Scheds |-> SchedIdle]
    /\ budget = NoRequests
    /\ dispatches = [o \in DOMAIN NoDispatches |-> [id \in Range(BatchIds) \cup Ids |-> 0]]
    /\ scheduler = [s \in DOMAIN sched |-> MainStart]
    /\ cancelLog = NoCancels

NextBatch ==
    \/ Tick
    \/ \E s \in DOMAIN sched : claim_and_enqueue_due_tasks(s)
    \/ \E s \in DOMAIN sched : claim_and_enqueue_due_tasks_commit(s)
    \/ \E s \in DOMAIN sched : claim_and_enqueue_due_tasks_enqueue(s)

SpecBatch == InitBatch /\ [][NextBatch]_vars

\* The same tasks with a client that cancels one of them at any moment.
InitBatchCancel ==
    /\ \E k \in 1..Len(BatchIds) :
          tasks = [id \in {BatchIds[i] : i \in 1..k} \cup {"t1"} |->
                     IF id = "t1" THEN Task("scheduled", 0, DEFAULT_MAX_ATTEMPTS, {MaxTime})
                     ELSE Task("scheduled", 0, DEFAULT_MAX_ATTEMPTS,
                               {BatchTime(CHOOSE i \in 1..k : BatchIds[i] = id)})]
    /\ queue = [id \in Range(BatchIds) \cup Ids |-> 0]
    /\ ex = [e \in Execs |-> Idle]
    /\ genMode = "ok"
    /\ dupLeft = 0
    /\ genCalls = Untracked
    /\ requeues = Untracked
    /\ completions = Untracked
    /\ escaped = {}
    /\ now = 0
    /\ api = [c \in ApiClients |-> ApiIdle]
    /\ sched = [s \in Scheds |-> SchedIdle]
    /\ budget = [create |-> 0, cancel |-> 1, retry |-> 0, chain |-> 0, observe |-> FALSE]
    /\ dispatches = [o \in DOMAIN NoDispatches |-> [id \in Range(BatchIds) \cup Ids |-> 0]]
    /\ scheduler = [s \in DOMAIN sched |-> MainStart]
    /\ cancelLog = NoCancels

NextBatchCancel ==
    \/ NextBatch
    \/ \E id \in DOMAIN tasks : cancel_task(id)
    \/ cancel_task_commit

SpecBatchCancel == InitBatchCancel /\ [][NextBatchCancel]_vars

\* More than BATCH_SIZE tasks are due at once, the scheduler loop keeps ticking
\* (scheduler.py 136-144) and the store stays reachable: every step of a tick that
\* can be taken is eventually taken.
InitBatchLive == InitBatch /\ Cardinality(Due) > BATCH_SIZE

SpecBatchLive ==
    /\ InitBatchLive /\ [][NextBatch]_vars
    /\ \A s \in Scheds :
          /\ WF_vars(claim_and_enqueue_due_tasks(s))
          /\ WF_vars(claim_and_enqueue_due_tasks_commit(s))
          /\ WF_vars(claim_and_enqueue_due_tasks_enqueue(s))

\* The loops of the scheduler processes, each over ticks that end in any of the
\* ways a tick can end; the store is empty.
InitMain ==
    /\ tasks = [id \in {} |-> NoTask]
    /\ queue = Zero
    /\ ex = [e \in Execs |-> Idle]
    /\ genMode = "ok"
    /\ dupLeft = 0
    /\ genCalls = Untracked
    /\ requeues = Untracked
    /\ completions = Untracked
    /\ escaped = {}
    /\ now = 0
    /\ api = [c \in ApiClients |-> ApiIdle]
    /\ sched = [s \in 1..(NumScheds + 1) |-> SchedIdle]
    /\ budget = NoRequests
    /\ dispatches = UntrackedDispatches
    /\ scheduler = [s \in DOMAIN sched |-> MainStart]
    /\ cancelLog = NoCancels

NextMain == \E s \in DOMAIN scheduler, outcome \in Outcomes : main(s, outcome)

SpecMain == InitMain /\ [][NextMain]_vars

\* A task as execute_task leaves it completed, with the text the generation returned.
CompletedTask(text) ==
    [Task("completed", 1, DEFAULT_MAX_ATTEMPTS, {}) EXCEPT
        !.started_at = "ts", !.finished_at = "ts", !.output = text,
        !.llm_provider = "llm", !.latency_ms = "ms"]

ZeroChain == [id \in Ids \cup ChildIds |-> 0]

\* Chain requests: a parent that is fresh (queued or scheduled) or completed with an
\* empty text, workers, a scheduler, and clients that chain onto any task.
InitChain ==
    /\ \/ /\ \E n \in 1..MaxN : tasks = [id \in {"t1"} |-> Task("queued", 0, n, {})]
          /\ queue = [ZeroChain EXCEPT !["t1"] = 1]
       \/ /\ tasks = [id \in {"t1"} |-> Task("scheduled", 0, 1, {MaxTime})]
          /\ queue = ZeroChain
       \/ /\ tasks = [id \in {"t1"} |-> CompletedTask("")]
          /\ queue = ZeroChain
    /\ ex = [e \in Execs |-> Idle]
    /\ genMode \in {"ok", "fail"}
    /\ dupLeft = 0
    /\ genCalls = Untracked
    /\ requeues = Untracked
    /\ completions = Untracked
    /\ escaped = {}
    /\ now = 0
    /\ api = [c \in ApiClients |-> ApiIdle]
    /\ sched = [s \in Scheds |-> SchedIdle]
    /\ budget = [create |-> 0, cancel |-> 0, retry |-> 0, chain |-> MaxChain, observe |-> TRUE]
    /\ dispatches = [o \in DOMAIN NoDispatches |-> ZeroChain]
    /\ scheduler = [s \in DOMAIN sched |-> MainStart]
    /\ cancelLog = NoCancels

NextChain ==
    \/ \E id \in DOMAIN tasks \cup {"ghost"}, sf \in {{}} \cup {{t} : t \in 0..MaxTime} :
          api_chain_task(id, sf)
    \/ api_chain_task_commit
    \/ api_chain_task_refresh
    \/ api_chain_task_enqueue
    \/ Tick
    \/ \E s \in DOMAIN sched : claim_and_enqueue_due_tasks(s)
    \/ \E s \in DOMAIN sched : claim_and_enqueue_due_tasks_commit(s)
    \/ \E s \in DOMAIN sched : claim_and_enqueue_due_tasks_enqueue(s)
    \/ \E e \in DOMAIN ex, id \in DOMAIN queue : execute_task(e, id)
    \/ \E e \in DOMAIN ex : execute_task_commit_running(e)
    \/ \E e \in DOMAIN ex : execute_task_refresh_running(e)
    \/ \E e \in DOMAIN ex : execute_task_generate_returns(e)
    \/ \E e \in DOMAIN ex : execute_task_generate_raises(e)
    \/ \E e \in DOMAIN ex : execute_task_refresh_done(e)
    \/ \E e \in DOMAIN ex : execute_task_commit_success(e)
    \/ \E e \in DOMAIN ex : execute_task_commit_requeue(e)
    \/ \E e \in DOMAIN ex : execute_task_enqueue(e)
    \/ \E e \in DOMAIN ex : execute_task_commit_failed(e)

SpecChain == InitChain /\ [][NextChain]_vars

\* Failures inside the failure handler: one fresh queued task whose generation
\* fails, and a store and a dispatch channel that may fail while the handler of
\* execute_task uses them.
InitFault ==
    /\ \E n \in 1..MaxN : tasks = [id \in {"t1"} |-> Task("queued", 0, n, {})]
    /\ queue = [Zero EXCEPT !["t1"] = 1]
    /\ ex = [e \in Execs |-> Idle]
    /\ genMode \in {"fail", "any"}
    /\ dupLeft = 0
    /\ genCalls = Zero
    /\ requeues = Zero
    /\ completions = Zero
    /\ escaped = {}
    /\ now = 0
    /\ api = [c \in ApiClients |-> ApiIdle]
    /\ sched = [s \in Scheds |-> SchedIdle]
    /\ budget = NoRequests
    /\ dispatches = NoDispatches
    /\ scheduler = [s \in DOMAIN sched |-> MainStart]
    /\ cancelLog = NoCancels

NextFault ==
    \/ \E e \in DOMAIN ex, id \in Ids : execute_task(e, id)
    \/ \E e \in DOMAIN ex : execute_task_commit_running(e)
    \/ \E e \in DOMAIN ex : execute_task_refresh_running(e)
    \/ \E e \in DOMAIN ex : execute_task_generate_returns(e)
    \/ \E e \in DOMAIN ex : execute_task_generate_raises(e)
    \/ \E e \in DOMAIN ex : execute_task_refresh_done(e)
    \/ \E e \in DOMAIN ex : execute_task_commit_success(e)
    \/ \E e \in DOMAIN ex : execute_task_commit_requeue(e)
    \/ \E e \in DOMAIN ex : execute_task_enqueue(e)
    \/ \E e \in DOMAIN ex : execute_task_commit_failed(e)
    \/ \E e \in DOMAIN ex : execute_task_commit_raises(e)
    \/ \E e \in DOMAIN ex : execute_task_enqueue_raises(e)

SpecFault == InitFault /\ [][NextFault]_vars

\* One task inserted scheduled for a later time, one scheduler process more than in
\* Spec, all ticking, and the workers that run the task once it is dispatched.
InitSched ==
    /\ \E n \in 1..MaxN : tasks = [id \in {"t1"} |-> Task("scheduled", 0, n, {MaxTime})]
    /\ queue = Zero
    /\ ex = [e \in Execs |-> Idle]
    /\ genMode \in {"ok", "fail"}
    /\ dupLeft = 0
    /\ genCalls = Zero
    /\ requeues = Zero
    /\ completions = Zero
    /\ escaped = {}
    /\ now = 0
    /\ api = [c \in ApiClients |-> ApiIdle]
    /\ sched = [s \in 1..(NumScheds + 1) |-> SchedIdle]
    /\ budget = NoRequests
    /\ dispatches = NoDispatches
    /\ scheduler = [s \in DOMAIN sched |-> MainStart]
    /\ cancelLog = NoCancels

NextSched ==
    \/ Tick
    \/ \E s \in DOMAIN sched : claim_and_enqueue_due_tasks(s)
    \/ \E s \in DOMAIN sched : claim_and_enqueue_due_tasks_commit(s)
    \/ \E s \in DOMAIN sched : claim_and_enqueue_due_tasks_commit_raises(s)
    \/ \E s \in DOMAIN sched : claim_and_enqueue_due_tasks_enqueue(s)
    \/ \E e \in DOMAIN ex, id \in Ids : execute_task(e, id)
    \/ \E e \in DOMAIN ex : execute_task_commit_running(e)
    \/ \E e \in DOMAIN ex : execute_task_refresh_running(e)
    \/ \E e \in DOMAIN ex : execute_task_generate_returns(e)
    \/ \E e \in DOMAIN ex : execute_task_generate_raises(e)
    \/ \E e \in DOMAIN ex : execute_task_refresh_done(e)
    \/ \E e \in DOMAIN ex : execute_task_commit_success(e)
    \/ \E e \in DOMAIN ex : execute_task_commit_requeue(e)
    \/ \E e \in DOMAIN ex : execute_task_enqueue(e)
    \/ \E e \in DOMAIN ex : execute_task_commit_failed(e)

SpecSched == InitSched /\ [][NextSched]_vars

\* One task created through the API with scheduled_for absent, now or later, the
\* scheduler and the workers.
InitCreate ==
    /\ tasks = [id \in {} |-> NoTask]
    /\ queue = Zero
    /\ ex = [e \in Execs |-> Idle]
    /\ genMode \in {"ok", "fail"}
    /\ dupLeft = 0
    /\ genCalls = Zero
    /\ requeues = Zero
    /\ completions = Zero
    /\ escaped = {}
    /\ now = 0
    /\ api = [c \in ApiClients |-> ApiIdle]
    /\ sched = [s \in Scheds |-> SchedIdle]
    /\ budget = [create |-> 1, cancel |-> 0, retry |-> 0, chain |-> 0, observe |-> TRUE]
    /\ dispatches = NoDispatches
    /\ scheduler = [s \in DOMAIN sched |-> MainStart]
    /\ cancelLog = NoCancels

NextCreate ==
    \/ \E sf \in {{}} \cup {{t} : t \in 0..MaxTime} : api_create_task(sf)
    \/ api_create_task_refresh
    \/ api_create_task_enqueue
    \/ Tick
    \/ \E s \in DOMAIN sched : claim_and_enqueue_due_tasks(s)
    \/ \E s \in DOMAIN sched : claim_and_enqueue_due_tasks_commit(s)
    \/ \E s \in DOMAIN sched : claim_and_enqueue_due_tasks_enqueue(s)
    \/ \E e \in DOMAIN ex, id \in Ids : execute_task(e, id)
    \/ \E e \in DOMAIN ex : execute_task_commit_running(e)
    \/ \E e \in DOMAIN ex : execute_task_refresh_running(e)
    \/ \E e \in DOMAIN ex : execute_task_generate_returns(e)
    \/ \E e \in DOMAIN ex : execute_task_generate_raises(e)
    \/ \E e \in DOMAIN ex : execute_task_refresh_done(e)
    \/ \E e \in DOMAIN ex : execute_task_commit_success(e)
    \/ \E e \in DOMAIN ex : execute_task_commit_requeue(e)
    \/ \E e \in DOMAIN ex : execute_task_enqueue(e)
    \/ \E e \in DOMAIN ex : execute_task_commit_failed(e)

SpecCreate == InitCreate /\ [][NextCreate]_vars

\* Retry requests: a fresh task as in SpecSingle, or a failed task as the fixture of
\* tests/test_api_tasks.py 33-51 inserts it (with or without stale output and
\* metadata), workers, a client that may cancel once and clients that retry.
FailedTask(n, stale) ==
    [Task("failed", n, n, {}) EXCEPT
        !.started_at = "ts", !.finished_at = "ts", !.error = "err",
        !.output = IF stale THEN "text" ELSE NULL,
        !.llm_provider = IF stale THEN "llm" ELSE NULL,
        !.latency_ms = IF stale THEN "ms" ELSE NULL]

InitRetry ==
    /\ \E n \in 1..MaxN :
          \/ /\ tasks = [id \in {"t1"} |-> Task("queued", 0, n, {})]
             /\ queue = [Zero EXCEPT !["t1"] = 1]
          \/ /\ tasks = [id \in {"t1"} |-> Task("scheduled", 0, n, {MaxTime})]
             /\ queue = Zero
          \/ /\ \E stale \in BOOLEAN : tasks = [id \in {"t1"} |-> FailedTask(n, stale)]
             /\ queue = Zero
    /\ ex = [e \in Execs |-> Idle]
    /\ genMode \in {"fail", "any"}
    /\ dupLeft = 0
    /\ genCalls = Zero
    /\ requeues = Zero
    /\ completions = Zero
    /\ escaped = {}
    /\ now = 0
    /\ api = [c \in ApiClients |-> ApiIdle]
    /\ sched = [s \in Scheds |-> SchedIdle]
    /\ budget = [create |-> 0, cancel |-> 1, retry |-> MaxRetry, chain |-> 0, observe |-> TRUE]
    /\ dispatches = NoDispatches
    /\ scheduler = [s \in DOMAIN sched |-> MainStart]
    /\ cancelLog = NoCancels

NextRetry ==
    \/ \E e \in DOMAIN ex, id \in Ids : execute_task(e, id)
    \/ \E e \in DOMAIN ex : execute_task_commit_running(e)
    \/ \E e \in DOMAIN ex : execute_task_refresh_running(e)
    \/ \E e \in DOMAIN ex : execute_task_generate_returns(e)
    \/ \E e \in DOMAIN ex : execute_task_generate_raises(e)
    \/ \E e \in DOMAIN ex : execute_task_refresh_done(e)
    \/ \E e \in DOMAIN ex : execute_task_commit_success(e)
    \/ \E e \in DOMAIN ex : execute_task_commit_cancelled(e)
    \/ \E e \in DOMAIN ex : execute_task_commit_requeue(e)
    \/ \E e \in DOMAIN ex : execute_task_enqueue(e)
    \/ \E e \in DOMAIN ex : execute_task_commit_failed(e)
    \/ \E id \in Ids : cancel_task(id)
    \/ cancel_task_commit
    \/ \E id \in Ids, payload \in {{}} \cup {{n} : n \in 1..MaxOverride} : api_retry_task(id, payload)
    \/ api_retry_task_commit
    \/ api_retry_task_enqueue

SpecRetry == InitRetry /\ [][NextRetry]_vars

\* ------------------------------------------------------------------- claims
\* Nothing is in progress and no message waits.
Done ==
    /\ \A e \in DOMAIN ex : ex[e].pc = "idle"
    /\ \A id \in Ids : queue[id] = 0
    /\ \A c \in ApiClients : api[c].pc = "idle"
    /\ \A s \in DOMAIN sched : sched[s].pc = "idle"

\* An executor passes the entry checks of execute_task for the task id.
Proceeds(e, id) == ex[e].pc = "idle" /\ ex'[e].pc = "commit_running" /\ ex'[e].id = id

\* An executor calls llm.generate for the task id.
Generates(e, id) == ex[e].pc # "generating" /\ ex'[e].pc = "generating" /\ ex'[e].id = id

\* C1: when executors run execute_task concurrently on one fresh queued task and
\* generation succeeds, the task ends completed with attempts = 1, completed was
\* committed exactly once and llm.generate was called exactly once.
C1_ExactlyOneRun ==
    Done => /\ tasks["t1"].status = "completed"
            /\ tasks["t1"].attempts = 1
            /\ completions["t1"] = 1
            /\ genCalls["t1"] = 1

\* C2: execute_task invoked for a task whose stored status is running returns at once:
\* it never passes the entry checks, so it changes nothing, calls no generation and
\* enqueues nothing.
C2_RunningIsNoOp ==
    [][\A e \in DOMAIN ex : \A id \in DOMAIN tasks :
          Proceeds(e, id) => tasks[id].status # "running"]_vars

\* C3: a stored status completed, failed or cancelled is never changed, except by the
\* commit of the retry operation, from failed to queued.
C3_TerminalAbsorbing ==
    [][\A id \in DOMAIN tasks :
          tasks[id].status \in Terminal =>
             \/ tasks'[id].status = tasks[id].status
             \/ /\ tasks[id].status = "failed"
                /\ tasks'[id].status = "queued"
                /\ api["retry"].pc = "commit"
                /\ api'["retry"].pc = "enqueue"]_vars

\* C4: finished_at is non-null exactly when the status is completed, failed or
\* cancelled.
C4_FinishedIffTerminal ==
    \A id \in DOMAIN tasks :
        tasks[id].finished_at # NULL <=> tasks[id].status \in Terminal

\* C5: once a cancellation was committed while the generation call was in flight,
\* and generation succeeds, the task is and stays cancelled with output and the
\* provider, model and latency metadata null and finished_at set, and the executor
\* enqueues nothing.
C5_MidRunCancelWins ==
    ("t1" \in cancelLog.midrun /\ genMode = "ok") =>
        /\ tasks["t1"].status = "cancelled"
        /\ tasks["t1"].output = NULL
        /\ tasks["t1"].finished_at # NULL
        /\ tasks["t1"].llm_provider = NULL
        /\ tasks["t1"].latency_ms = NULL
        /\ requeues["t1"] = 0
        /\ queue["t1"] = 0

C5_Witness ==
    /\ Done
    /\ "t1" \in cancelLog.midrun
    /\ genMode = "ok"
    /\ genCalls["t1"] = 1
    /\ tasks["t1"].status = "cancelled"

\* C6: once a cancellation was committed while the generation call was in flight, a
\* failing generation leaves the status cancelled, writes no error and re-enqueues
\* nothing.
C6_FailureObservesCancel ==
    [][\A id \in cancelLog.midrun :
          /\ tasks'[id].status = "cancelled"
          /\ tasks'[id].error = tasks[id].error
          /\ requeues'[id] = requeues[id]]_vars

\* C7: once cancel_task committed cancelled over a stored scheduled or queued, no
\* executor calls llm.generate for the task, its attempts do not change and its
\* status stays cancelled (until an explicit retry).
C7_EarlyCancelPreventsRun ==
    [][\A id \in cancelLog.early :
          \/ /\ \A e \in DOMAIN ex : ~Generates(e, id)
             /\ tasks'[id].attempts = tasks[id].attempts
             /\ tasks'[id].status = "cancelled"
          \/ api["retry"].pc = "commit" /\ api'["retry"].pc = "enqueue"]_vars

\* C8: execute_task invoked, any number of times in sequence, on a task whose status
\* is completed, failed or cancelled changes no field of it, calls no generation and
\* enqueues nothing.
C8_TerminalIsNoOp ==
    [][\A id \in DOMAIN tasks :
          (/\ tasks[id].status \in Terminal
           /\ \A e \in DOMAIN ex : ex[e].pc = "idle"
           /\ api' = api) =>
              /\ tasks' = tasks
              /\ \A e \in DOMAIN ex : ex'[e].pc = "idle"
              /\ genCalls' = genCalls
              /\ requeues' = requeues
              /\ \A i \in Ids : queue'[i] <= queue[i]]_vars

\* The one message of a task inserted queued was delivered after the task had been
\* cancelled: the invocation ended at the entry checks.
C8_Witness ==
    /\ Done
    /\ tasks["t1"].scheduled_for = {}
    /\ tasks["t1"].status = "cancelled"
    /\ tasks["t1"].attempts = 0
    /\ genCalls["t1"] = 0

\* C9: cancel_task on a scheduled, queued or running task commits status cancelled
\* with finished_at set and returns the stored task; on a completed, failed or
\* cancelled task it changes nothing and returns the task as stored; on an unknown
\* id it changes nothing and returns nothing (404).
C9_CancelOperation ==
    [][LET c == api["cancel"]
           r == api'["cancel"]
       IN  /\ (c.pc = "commit" /\ r.pc = "idle") =>
                 /\ tasks'[c.id].status = "cancelled"
                 /\ tasks'[c.id].finished_at # NULL
                 /\ r.ret = "ok"
                 /\ r.task = tasks'[c.id]
           /\ (c.pc = "idle" /\ r.pc = "commit") =>
                 /\ tasks[r.id].status \in {"scheduled", "queued", "running"}
                 /\ tasks' = tasks
           /\ (c.pc = "idle" /\ r.pc = "idle" /\ r # c) =>
                 /\ tasks' = tasks
                 /\ IF r.id \in DOMAIN tasks
                    THEN /\ tasks[r.id].status \in Terminal
                         /\ r.ret = "ok"
                         /\ r.task = tasks[r.id]
                    ELSE r.ret = "404"]_vars

\* A cancel of the running task was committed and answered, and a later cancel of the
\* then cancelled task left the store as it was.
C9_Witness ==
    /\ Done
    /\ budget.cancel = 1
    /\ api["cancel"].ret = "ok"
    /\ api["cancel"].task = tasks["t1"]
    /\ tasks["t1"].status = "cancelled"
    /\ tasks["t1"].finished_at # NULL
    /\ tasks["t1"].attempts = 1

\* C10: a task inserted queued with attempts = 0 and max_attempts = N whose generation
\* always fails, one invocation per message and no cancel, ends failed with
\* attempts = N, error set and N - 1 enqueues by the executor.
C10_RetryBound ==
    (/\ Done
     /\ genMode = "fail"
     /\ api["cancel"] = ApiIdle
     /\ tasks["t1"].scheduled_for = {}) =>
        /\ tasks["t1"].status = "failed"
        /\ tasks["t1"].attempts = tasks["t1"].max_attempts
        /\ tasks["t1"].error # NULL
        /\ requeues["t1"] = tasks["t1"].max_attempts - 1

C10_Witness ==
    /\ Done
    /\ genMode = "fail"
    /\ api["cancel"] = ApiIdle
    /\ tasks["t1"].status = "failed"
    /\ tasks["t1"].attempts = 2
    /\ tasks["t1"].max_attempts = 2
    /\ requeues["t1"] = 1

\* C11: a task inserted queued with attempts = 0 whose generation fails k times
\* (each failure puts it back, so k is the number of enqueues by the executor) and
\* then succeeds, one invocation per message and no cancel, ends completed with
\* attempts = k + 1 <= max_attempts, output set and error null.
C11_RetrySuccessPath ==
    (/\ Done
     /\ api["cancel"] = ApiIdle
     /\ tasks["t1"].scheduled_for = {}
     /\ completions["t1"] >= 1) =>
        /\ tasks["t1"].status = "completed"
        /\ tasks["t1"].attempts = requeues["t1"] + 1
        /\ tasks["t1"].attempts <= tasks["t1"].max_attempts
        /\ genCalls["t1"] = requeues["t1"] + 1
        /\ completions["t1"] = 1
        /\ tasks["t1"].output # NULL
        /\ tasks["t1"].error = NULL

\* max_attempts = 2, the first attempt failed, the second succeeded.
C11_Witness ==
    /\ Done
    /\ api["cancel"] = ApiIdle
    /\ tasks["t1"].status = "completed"
    /\ tasks["t1"].max_attempts = 2
    /\ tasks["t1"].attempts = 2
    /\ requeues["t1"] = 1
    /\ tasks["t1"].error = NULL

\* C12: in every reachable state, duplicate deliveries and concurrent executors
\* included, every task whose status is failed has attempts <= max_attempts.
C12_FailedWithinBound ==
    \A id \in DOMAIN tasks :
        tasks[id].status = "failed" => tasks[id].attempts <= tasks[id].max_attempts

\* C13: with several scheduler ticks running concurrently against one due scheduled
\* task, at most one tick holds the task at any time, the flip from scheduled to
\* queued is committed exactly once and the task's id is dispatched exactly once.
C13_SingleClaim ==
    /\ \A a, b \in DOMAIN sched :
          a # b => (sched[a].sel \cup Range(sched[a].claimed))
                     \cap (sched[b].sel \cup Range(sched[b].claimed)) = {}
    /\ dispatches.claims["t1"] <= 1
    /\ dispatches.sched["t1"] <= dispatches.claims["t1"]
    /\ dispatches.claims["t1"] = 1 <=> tasks["t1"].status # "scheduled"
    /\ (tasks["t1"].status # "scheduled" /\ \A s \in DOMAIN sched : sched[s].pc = "idle") =>
          dispatches.sched["t1"] = 1

\* The task was claimed and dispatched, and every tick has ended.
C13_Witness ==
    /\ Done
    /\ Cardinality(DOMAIN sched) >= 2
    /\ dispatches.claims["t1"] = 1
    /\ dispatches.sched["t1"] = 1
    /\ tasks["t1"].status = "completed"

\* C14: a task is created queued when scheduled_for is absent or not later than now
\* and scheduled when it is later; a task created queued gets exactly one dispatch
\* from the creation request; a task created scheduled gets no dispatch as long as
\* it is scheduled, and none from the scheduler that is not covered by a claim.
C14_CreateDispatch ==
    [][/\ \A id \in DOMAIN tasks' \ DOMAIN tasks :
             /\ tasks'[id].status =
                   IF \A t \in tasks'[id].scheduled_for : t <= now THEN "queued" ELSE "scheduled"
             /\ tasks'[id].attempts = 0
             /\ \A o \in DOMAIN dispatches : dispatches'[o][id] = 0
             /\ queue'[id] = 0
       /\ \A id \in DOMAIN tasks' :
             /\ dispatches'.create[id] <= 1
             /\ dispatches'.sched[id] <= dispatches'.claims[id]
             /\ dispatches'.claims[id] <= 1
             /\ tasks'[id].status = "scheduled" =>
                   /\ \A o \in DOMAIN dispatches : dispatches'[o][id] = 0
                   /\ queue'[id] = 0
                   /\ genCalls'[id] = 0
             /\ (/\ dispatches'.claims[id] = 0
                 /\ tasks'[id].status # "scheduled"
                 /\ api'["create"].pc = "idle") => dispatches'.create[id] = 1]_vars

\* A task created with scheduled_for = now was dispatched by the request and ran.
C14_Witness ==
    /\ Done
    /\ "t1" \in DOMAIN tasks
    /\ tasks["t1"].scheduled_for = {0}
    /\ api["create"].task.status = "queued"
    /\ dispatches.create["t1"] = 1
    /\ dispatches.sched["t1"] = 0
    /\ genCalls["t1"] >= 1

\* Retry requests accepted so far.
Retried == MaxRetry - budget.retry

\* C15: the commit of a retry leaves the task queued with attempts = 0, error, output,
\* started_at, finished_at, provider, model and latency null, and max_attempts equal
\* to the override of the payload, or unchanged when the payload has none; the retry
\* then makes one enqueue of the task's id, and none before the commit.
C15_RetryResets ==
    [][LET c == api["retry"]
           r == api'["retry"]
       IN  /\ (c.pc = "commit" /\ r.pc = "enqueue") =>
                 /\ tasks[c.id].status = "failed" =>
                       tasks' = [tasks EXCEPT ![c.id] =
                                   [Task("queued", 0,
                                         IF c.arg = {} THEN tasks[c.id].max_attempts
                                         ELSE CHOOSE n \in c.arg : TRUE,
                                         tasks[c.id].scheduled_for)
                                    EXCEPT !.started_at = NULL]]
                 /\ tasks'[c.id].status = "queued"
                 /\ tasks'[c.id].attempts = 0
                 /\ queue' = queue
                 /\ dispatches' = dispatches
           /\ (c.pc = "enqueue" /\ r.pc = "idle") =>
                 /\ queue' = [queue EXCEPT ![c.id] = @ + 1]
                 /\ dispatches'.retry = [dispatches.retry EXCEPT ![c.id] = @ + 1]
                 /\ tasks' = tasks
                 /\ r.ret = "ok"
           /\ dispatches'.retry # dispatches.retry => c.pc = "enqueue"
           /\ dispatches'.retry["t1"] = IF r.pc = "idle" THEN Retried' ELSE Retried' - 1]_vars

\* A retry with an override was answered: the task of the response is the reset task
\* with the override, and one enqueue was made for it.
C15_Witness ==
    /\ api["retry"].pc = "idle"
    /\ api["retry"].ret = "ok"
    /\ api["retry"].arg = {1}
    /\ api["retry"].task = Task("queued", 0, 1, {})
    /\ dispatches.retry["t1"] = 1

\* C16: a retry request for a task whose status is not failed is answered with the
\* error 409 (404 for an unknown id), changes no task and enqueues nothing; a retry
\* goes on to its reset only for a task it read as failed.
C16_RetryRejected ==
    [][LET c == api["retry"]
           r == api'["retry"]
       IN  (c.pc = "idle" /\ r # c) =>
              /\ tasks' = tasks
              /\ queue' = queue
              /\ dispatches' = dispatches
              /\ IF r.id \notin DOMAIN tasks
                 THEN r.pc = "idle" /\ r.ret = "404"
                 ELSE IF tasks[r.id].status # "failed"
                 THEN r.pc = "idle" /\ r.ret = "409" /\ budget' = budget
                 ELSE r.pc = "commit"]_vars

\* A retry of the task was rejected while the task was running.
C16_Witness ==
    /\ api["retry"].pc = "idle"
    /\ api["retry"].id = "t1"
    /\ api["retry"].ret = "409"
    /\ tasks["t1"].status = "running"
    /\ Retried = 0

C19_HandlerNeverRaises == escaped = {}

\* C20: a scheduler tick dispatches a task id only after the transaction that
\* flipped the task from scheduled to queued has committed and released its row
\* lock; a tick whose commit fails dispatches no id at all.
C20_CommitBeforeDispatch ==
    [][\A id \in DOMAIN tasks :
          /\ dispatches'.sched[id] > dispatches.sched[id] =>
                /\ dispatches.sched[id] < dispatches.claims[id]
                /\ tasks[id].status # "scheduled"
                /\ ~Locked(id)
                /\ \E s \in DOMAIN sched : sched[s].pc = "enqueue" /\ Head(sched[s].claimed) = id
          /\ dispatches'.aborts[id] > dispatches.aborts[id] =>
                /\ queue' = queue
                /\ dispatches'.sched = dispatches.sched
                /\ tasks' = tasks
                /\ ~Locked(id)'
                /\ \A s \in DOMAIN sched : sched'[s] # sched[s] => sched'[s] = SchedIdle]_vars

\* The commit of one tick failed and nothing was dispatched; a later tick committed
\* the claim and dispatched the id.
C20_Witness ==
    /\ dispatches.aborts["t1"] = 1
    /\ dispatches.claims["t1"] = 1
    /\ dispatches.sched["t1"] = 1
    /\ \A s \in DOMAIN sched : sched[s] = SchedIdle

\* C21: whenever a scheduler tick dispatches a task id, the stored status of that
\* task at the moment of the dispatch is not cancelled.
C21_NoCancelledDispatch ==
    [][\A s \in DOMAIN sched :
          (/\ sched[s].pc = "enqueue"
           /\ sched[s].claimed # <<>>
           /\ sched'[s].claimed = Tail(sched[s].claimed)) =>
              tasks[Head(sched[s].claimed)].status # "cancelled"]_vars

\* models.py 119: the parent of a task, NULL for a task created without one.
ParentOf(id) == tasks[id].parent_task_id

RECURSIVE Ancestors(_, _)
\* The tasks reached from id by at most k steps along parent_task_id.
Ancestors(id, k) ==
    IF k = 0 \/ ParentOf(id) \notin DOMAIN tasks THEN {}
    ELSE {ParentOf(id)} \cup Ancestors(ParentOf(id), k - 1)

Acyclic == \A id \in DOMAIN tasks : id \notin Ancestors(id, Cardinality(DOMAIN tasks))

\* The task was inserted with status queued: only a scheduler claim ends scheduled.
InitiallyQueued(id) == tasks[id].status # "scheduled" /\ dispatches.claims[id] = 0

\* What C22 says of every step but the dispatch of the child: the request is
\* accepted exactly for an existing completed parent with a non-empty output, a
\* rejection changes nothing, and the child is inserted with the parent's id, a prompt
\* embedding the parent's output, and the status of the creation rule; prompts and
\* parents never change afterwards, and the parent relation has no cycle.
ChainCreated ==
    LET c == api["chain"]
        d == api'["chain"]
    IN  /\ (c.pc = "idle" /\ d # c) =>
              /\ tasks' = tasks /\ queue' = queue /\ dispatches' = dispatches
              /\ IF /\ d.id \in DOMAIN tasks
                    /\ tasks[d.id].status = "completed"
                    /\ tasks[d.id].output \notin {NULL, ""}
                 THEN d.pc = "commit"
                 ELSE d.pc = "idle" /\ d.ret \in {"404", "409"}
        /\ (c.pc = "commit" /\ d.pc # "commit") =>
              /\ DOMAIN tasks' \ DOMAIN tasks = {d.id}
              /\ tasks'[d.id].parent_task_id = c.id
              /\ tasks'[d.id].prompt = ChainPrompt(tasks[c.id].output, "instruction")
              /\ tasks'[d.id].status =
                    IF \A t \in tasks'[d.id].scheduled_for : t <= now THEN "queued" ELSE "scheduled"
              /\ tasks'[d.id].attempts = 0
              /\ queue' = queue
        /\ \A id \in DOMAIN tasks :
              /\ id \in DOMAIN tasks'
              /\ tasks'[id].prompt = tasks[id].prompt
              /\ tasks'[id].parent_task_id = tasks[id].parent_task_id
        /\ Acyclic /\ Acyclic'

\* C22: chain creation is permitted only for an existing completed parent with a
\* non-empty output and is otherwise rejected without creating or dispatching
\* anything; the child has the parent's id as parent_task_id, a prompt embedding the
\* parent's output at creation time, the initial status of the creation rule, and
\* the request dispatches its id iff that status is queued; the parent relation has
\* no cycle.
C22_ChainCreation ==
    [][/\ ChainCreated
       /\ (api["chain"].pc \in {"refresh", "enqueue"} /\ api'["chain"].pc = "idle") =>
             (dispatches'.chain[api["chain"].id] = 1 <=> InitiallyQueued(api["chain"].id)')]_vars

\* C23: in every reachable state, duplicate and concurrent executions of a task
\* included, no task has both output and error non-null.
C23_OutputXorError ==
    \A id \in DOMAIN tasks : tasks[id].output = NULL \/ tasks[id].error = NULL

\* C24: in every reachable state a task has llm_provider or latency_ms non-null
\* only if its status is completed.
C24_MetadataOnlyCompleted ==
    \A id \in DOMAIN tasks :
        (tasks[id].llm_provider # NULL \/ tasks[id].latency_ms # NULL) =>
            tasks[id].status = "completed"

\* C25: attempts counts the commits of the transition into running: each such
\* commit raises the stored attempts of its task by exactly 1, also when executors
\* overlap; the commit of a retry resets it to 0, and no other step changes it.
C25_AttemptsCountRuns ==
    [][\A id \in DOMAIN tasks :
          IF \E e \in DOMAIN ex :
                ex[e].pc = "commit_running" /\ ex[e].id = id /\ ex'[e].pc # "commit_running"
          THEN tasks'[id].attempts = tasks[id].attempts + 1
          ELSE IF api["retry"].pc = "commit" /\ api["retry"].id = id /\ api'["retry"].pc # "commit"
          THEN tasks'[id].attempts = 0
          ELSE tasks'[id].attempts = tasks[id].attempts]_vars

\* C26: once finished_at of a task is non-null, no commit writes another timestamp
\* into it: neither the commit of a later attempt's failure or success nor the
\* commit of a cancel (the reset of a retry, which writes null, apart).
C26_FinishedOnce ==
    [][\A id \in DOMAIN tasks : tasks[id].finished_at # NULL =>
          /\ \A e \in DOMAIN ex :
                (/\ ex[e].id = id
                 /\ ex[e].pc \in {"commit_running", "commit_success", "commit_cancelled",
                                  "commit_requeue", "commit_failed"}
                 /\ ex'[e].pc # ex[e].pc) => "finished_at" \notin ex[e].dirty
          /\ (/\ api["cancel"].id = id
              /\ api["cancel"].pc = "commit"
              /\ api'["cancel"].pc # "commit") => "finished_at" \notin api["cancel"].dirty]_vars

\* crud.py 103-116: is_due, the task is scheduled and its time has come.
is_due(id) ==
    /\ id \in DOMAIN tasks
    /\ tasks[id].status = "scheduled"
    /\ tasks[id].scheduled_for = {} \/ When(id) <= now

Changed == {id \in DOMAIN tasks : tasks'[id] # tasks[id]}

\* C28: a scheduler tick selects at most BATCH_SIZE tasks, all scheduled and due at
\* the time of the tick, the earliest first in ascending scheduled_for order; its
\* commit changes only their status, from scheduled to queued, and no other row;
\* it dispatches exactly the ids it flipped, once each, and no other step of the
\* tick changes a row.
C28_TickFrame ==
    [][\A s \in DOMAIN sched : sched'[s] # sched[s] =>
          LET q == sched'[s].claimed
          IN  /\ DOMAIN tasks' = DOMAIN tasks
              /\ (sched[s].pc = "idle") =>
                    /\ Changed = {} /\ queue' = queue
                    /\ sched'[s].pc = "commit" /\ sched'[s].sel = Range(q)
                    /\ Len(q) = Min(BATCH_SIZE, Cardinality(Due))
                    /\ \A i \in DOMAIN q :
                          /\ tasks[q[i]].status = "scheduled"
                          /\ When(q[i]) <= now
                          /\ \A j \in DOMAIN q : i < j => q[i] # q[j] /\ When(q[i]) <= When(q[j])
                          /\ \A id \in Due \ Range(q) : When(q[i]) <= When(id)
              /\ (sched[s].pc = "commit") =>
                    /\ Changed = Range(sched[s].claimed)
                    /\ Cardinality(Changed) <= BATCH_SIZE
                    /\ \A id \in Changed :
                          /\ tasks[id].status = "scheduled"
                          /\ When(id) <= now
                          /\ tasks'[id] = [tasks[id] EXCEPT !.status = "queued"]
                    /\ queue' = queue
                    /\ q = sched[s].claimed
              /\ (sched[s].pc = "enqueue") =>
                    /\ Changed = {}
                    /\ IF sched[s].claimed = <<>>
                       THEN queue' = queue /\ sched'[s] = SchedIdle
                       ELSE /\ queue' = [queue EXCEPT ![Head(sched[s].claimed)] = @ + 1]
                            /\ dispatches.sched[Head(sched[s].claimed)] = 0
                            /\ q = Tail(sched[s].claimed)
              /\ \A id \in DOMAIN tasks :
                    dispatches'.sched[id] + Cardinality({t \in DOMAIN sched :
                        \E i \in DOMAIN sched'[t].claimed :
                            sched'[t].pc = "enqueue" /\ sched'[t].claimed[i] = id})
                      = dispatches'.claims[id]]_vars

\* One tick found BATCH_SIZE + 1 tasks due, flipped and dispatched the BATCH_SIZE
\* earliest of them and left the latest one scheduled.
C28_Witness ==
    /\ \A s \in DOMAIN sched : sched[s] = SchedIdle
    /\ \A i \in 1..Len(BatchIds) : BatchIds[i] \in DOMAIN tasks
    /\ Cardinality({id \in Range(BatchIds) : tasks[id].status = "queued"}) = BATCH_SIZE
    /\ \A id \in Range(BatchIds) :
          IF tasks[id].status = "queued"
          THEN dispatches.sched[id] = 1 /\ queue[id] = 1
          ELSE tasks[id].status = "scheduled" /\ When(id) = BatchTime(1) /\ queue[id] = 0

\* C29: in the loop of every scheduler process the backoff stays between the
\* minimum and the maximum; it is the minimum at the start and after a tick that
\* succeeded, and the minimum doubled once per OperationalError since, capped at the
\* maximum; the process sleeps the backoff it had when the error came; no outcome of
\* a tick ends the loop.
C29_BackoffBounded ==
    \A s \in DOMAIN scheduler :
        LET m == scheduler[s]
        IN  /\ m.running
            /\ m.backoff_seconds >= DB_ERROR_BACKOFF_MIN_SECONDS
            /\ m.backoff_seconds <= DB_ERROR_BACKOFF_MAX_SECONDS
            /\ m.backoff_seconds =
                  Min(DB_ERROR_BACKOFF_MAX_SECONDS, DB_ERROR_BACKOFF_MIN_SECONDS * 2 ^ m.streak)
            /\ m.last \in {"none", "ok"} =>
                  m.backoff_seconds = DB_ERROR_BACKOFF_MIN_SECONDS /\ m.streak = 0
            /\ m.last = "OperationalError" =>
                  /\ m.streak >= 1
                  /\ m.slept = Min(DB_ERROR_BACKOFF_MAX_SECONDS,
                                   DB_ERROR_BACKOFF_MIN_SECONDS * 2 ^ (m.streak - 1))

\* A process met enough store errors in a row to reach the maximum, slept the
\* maximum, and goes on; another one is back at the minimum after a good tick.
C29_Witness ==
    \E s, t \in DOMAIN scheduler :
        /\ scheduler[s].last = "OperationalError"
        /\ scheduler[s].streak = MaxStreak
        /\ scheduler[s].backoff_seconds = DB_ERROR_BACKOFF_MAX_SECONDS
        /\ scheduler[s].slept = DB_ERROR_BACKOFF_MAX_SECONDS
        /\ scheduler[t].last = "ok"
        /\ scheduler[t].slept = POLL_SECONDS
        /\ scheduler[t].backoff_seconds = DB_ERROR_BACKOFF_MIN_SECONDS

\* A scheduler process that may die between its commit and its dispatch: an empty
\* store, one task created through the API, the scheduler ticks, one worker, and a
\* client that sends retry requests; nobody cancels.
InitCrash ==
    /\ tasks = [id \in {} |-> NoTask]
    /\ queue = Zero
    /\ ex = [e \in {1} |-> Idle]
    /\ genMode \in {"ok", "fail"}
    /\ dupLeft = 0
    /\ genCalls = Zero
    /\ requeues = Zero
    /\ completions = Zero
    /\ escaped = {}
    /\ now = 0
    /\ api = [c \in ApiClients |-> ApiIdle]
    /\ sched = [s \in Scheds |-> SchedIdle]
    /\ budget = [create |-> 1, cancel |-> 0, retry |-> MaxRetry, chain |-> 0, observe |-> FALSE]
    /\ dispatches = NoDispatches
    /\ scheduler = [s \in DOMAIN sched |-> MainStart]
    /\ cancelLog = NoCancels

NextCrash ==
    \/ NextCreate
    \/ \E s \in DOMAIN sched : claim_and_enqueue_due_tasks_crash(s)
    \/ \E id \in Ids : api_retry_task(id, {})
    \/ api_retry_task_commit
    \/ api_retry_task_enqueue

SpecCrash == InitCrash /\ [][NextCrash]_vars

\* The request that created the task is over and did not dispatch it.
CreateReturned(id) ==
    /\ ~(api["create"].pc # "idle" /\ api["create"].id = id)
    /\ dispatches.create[id] = 0

\* The task is queued, no message for it is in the queue, nothing ever dispatched
\* it and no worker ever ran it.
Stuck(id) ==
    /\ id \in DOMAIN tasks
    /\ tasks[id].status = "queued"
    /\ queue[id] = 0
    /\ \A o \in {"create", "retry", "chain", "sched"} : dispatches[o][id] = 0
    /\ genCalls[id] = 0
    /\ tasks[id].attempts = 0

InitStray ==
    /\ \/ tasks = [id \in {} |-> NoTask]
       \/ \E n \in 1..MaxN : tasks = [id \in {"t1"} |-> Task("scheduled", 0, n, {MaxTime})]
    /\ queue = Zero
    /\ ex = [e \in Execs |-> Idle]
    /\ genMode \in {"ok", "fail"}
    /\ dupLeft = 0
    /\ genCalls = Zero
    /\ requeues = Zero
    /\ completions = Zero
    /\ escaped = {}
    /\ now = 0
    /\ api = [c \in ApiClients |-> ApiIdle]
    /\ sched = [s \in Scheds |-> SchedIdle]
    /\ budget = [create |-> 0, cancel |-> 1, retry |-> 0, chain |-> 0, observe |-> FALSE]
    /\ dispatches = NoDispatches
    /\ scheduler = [s \in DOMAIN sched |-> MainStart]
    /\ cancelLog = NoCancels

NextStray ==
    \/ \E e \in DOMAIN ex, id \in Ids : execute_task_stray(e, id)
    \/ \E e \in DOMAIN ex, id \in Ids : execute_task(e, id)
    \/ \E e \in DOMAIN ex : execute_task_commit_running(e)
    \/ \E e \in DOMAIN ex : execute_task_refresh_running(e)
    \/ \E e \in DOMAIN ex : execute_task_generate_returns(e)
    \/ \E e \in DOMAIN ex : execute_task_generate_raises(e)
    \/ \E e \in DOMAIN ex : execute_task_refresh_done(e)
    \/ \E e \in DOMAIN ex : execute_task_commit_success(e)
    \/ \E e \in DOMAIN ex : execute_task_commit_requeue(e)
    \/ \E e \in DOMAIN ex : execute_task_enqueue(e)
    \/ \E e \in DOMAIN ex : execute_task_commit_failed(e)
    \/ \E id \in Ids : cancel_task(id)
    \/ cancel_task_commit
    \/ Tick
    \/ \E s \in DOMAIN sched : claim_and_enqueue_due_tasks(s)
    \/ \E s \in DOMAIN sched : claim_and_enqueue_due_tasks_commit(s)
    \/ \E s \in DOMAIN sched : claim_and_enqueue_due_tasks_enqueue(s)

SpecStray == InitStray /\ [][NextStray]_vars

\* C31: a call of execute_task for a scheduled task or for an id the store does not
\* have returns at once: the store, the queue, the count of generation calls and
\* the count of re-enqueues are as before and the worker is idle again; and a step
\* that changes a scheduled task is the commit of a scheduler tick that selected it
\* (status becomes queued, nothing else changes) or the commit of a cancel request.
C31_ScheduledUntouched ==
    [][/\ \A id \in Ids :
             dispatches'.stray[id] # dispatches.stray[id] =>
                /\ id \in DOMAIN tasks => tasks[id].status = "scheduled"
                /\ tasks' = tasks
                /\ queue' = queue
                /\ genCalls' = genCalls
                /\ requeues' = requeues
                /\ ex' = ex
       /\ \A id \in DOMAIN tasks :
             tasks[id].status = "scheduled" /\ tasks'[id] # tasks[id] =>
                \/ \E s \in DOMAIN sched :
                      /\ sched[s].pc = "commit"
                      /\ id \in sched[s].sel
                      /\ tasks'[id] = [tasks[id] EXCEPT !.status = "queued"]
                \/ /\ api["cancel"].pc = "commit"
                   /\ api["cancel"].id = id
                   /\ tasks'[id] = [tasks[id] EXCEPT !.status = "cancelled",
                                                     !.finished_at = "ts"]]_vars

\* execute_task was called MaxStray times for the scheduled task, which is still
\* exactly as created, with no message and no generation call, and MaxStray times
\* for an id the store does not have.
C31_Witness ==
    /\ "t1" \in DOMAIN tasks
    /\ dispatches.stray["t1"] = MaxStray
    /\ dispatches.stray["ghost"] = MaxStray
    /\ "ghost" \notin DOMAIN tasks
    /\ tasks["t1"].status = "scheduled"
    /\ tasks["t1"].attempts = 0
    /\ tasks["t1"].started_at = NULL
    /\ queue["t1"] = 0
    /\ genCalls["t1"] = 0
    /\ \A e \in DOMAIN ex : ex[e] = Idle

\* C32: the commit of an executor's transition to running, made on a task stored as
\* queued, sets status to running, raises the stored attempts by exactly 1, leaves
\* error null, sets started_at only where it was null, and changes no other field.
C32_RunningTransition ==
    [][\A e \in DOMAIN ex :
          /\ ex[e].pc = "commit_running"
          /\ ex'[e].pc = "refresh_running"
          /\ tasks[ex[e].id].status = "queued"
          => tasks'[ex[e].id] =
                [tasks[ex[e].id] EXCEPT !.status = "running",
                                        !.attempts = @ + 1,
                                        !.error = NULL,
                                        !.started_at = IF @ = NULL THEN "ts" ELSE @]]_vars

\* C33: for every task, the number of calls of llm.generate made for it since it
\* was created (no retry request resets it here) is at most its max_attempts.
C33_BoundedGeneration ==
    \A id \in DOMAIN tasks : genCalls[id] <= tasks[id].max_attempts

\* Progress: one queued task with its message, which the transport delivers, workers
\* that run every step they have begun, a generation call that returns or raises
\* as it likes, and a client that may cancel.  The store and the channel do
\* not fail and no worker dies.
InitLive ==
    /\ \E n \in 1..MaxN : tasks = [id \in {"t1"} |-> Task("queued", 0, n, {})]
    /\ queue = [Zero EXCEPT !["t1"] = 1]
    /\ ex = [e \in Execs |-> Idle]
    /\ genMode = "any"
    /\ dupLeft = 0
    /\ genCalls = Zero
    /\ requeues = Zero
    /\ completions = Zero
    /\ escaped = {}
    /\ now = 0
    /\ api = [c \in ApiClients |-> ApiIdle]
    /\ sched = [s \in Scheds |-> SchedIdle]
    /\ budget = [create |-> 0, cancel |-> MaxCancel, retry |-> 0, chain |-> 0, observe |-> FALSE]
    /\ dispatches = NoDispatches
    /\ scheduler = [s \in DOMAIN sched |-> MainStart]
    /\ cancelLog = NoCancels

NextLive ==
    \/ \E e \in DOMAIN ex, id \in Ids : execute_task(e, id)
    \/ \E e \in DOMAIN ex : execute_task_commit_running(e)
    \/ \E e \in DOMAIN ex : execute_task_refresh_running(e)
    \/ \E e \in DOMAIN ex : execute_task_generate_returns(e)
    \/ \E e \in DOMAIN ex : execute_task_generate_raises(e)
    \/ \E e \in DOMAIN ex : execute_task_refresh_done(e)
    \/ \E e \in DOMAIN ex : execute_task_commit_success(e)
    \/ \E e \in DOMAIN ex : execute_task_commit_requeue(e)
    \/ \E e \in DOMAIN ex : execute_task_enqueue(e)
    \/ \E e \in DOMAIN ex : execute_task_commit_failed(e)
    \/ \E id \in Ids : cancel_task(id)
    \/ cancel_task_commit

SpecLive ==
    /\ InitLive /\ [][NextLive]_vars
    /\ \A e \in Execs :
          /\ WF_vars(\E id \in Ids : execute_task(e, id))
          /\ WF_vars(execute_task_commit_running(e))
          /\ WF_vars(execute_task_refresh_running(e))
          /\ WF_vars(execute_task_generate_returns(e) \/ execute_task_generate_raises(e))
          /\ WF_vars(execute_task_refresh_done(e))
          /\ WF_vars(execute_task_commit_success(e))
          /\ WF_vars(execute_task_commit_requeue(e))
          /\ WF_vars(execute_task_enqueue(e))
          /\ WF_vars(execute_task_commit_failed(e))
    /\ WF_vars(cancel_task_commit)

\* No worker is inside execute_task and no message waits for delivery.
Quiet == (\A e \in DOMAIN ex : ex[e] = Idle) /\ (\A id \in Ids : queue[id] = 0)

\* C34: a task that is queued with a message for its id eventually has a terminal
\* status; and once every call of execute_task has returned and no message is left,
\* the task is not in status running.
C34_EventuallyTerminal ==
    /\ \A id \in TaskIds :
          (id \in DOMAIN tasks /\ tasks[id].status = "queued" /\ queue[id] > 0)
             ~> (id \in DOMAIN tasks /\ tasks[id].status \in Terminal)
    /\ [](Quiet => \A id \in DOMAIN tasks : tasks[id].status # "running")

\* The first attempt failed and was re-enqueued, the second one succeeded: every
\* call has returned, no message is left and the task is completed.
C34_Witness ==
    /\ Quiet
    /\ tasks["t1"].status = "completed"
    /\ tasks["t1"].attempts = 2
    /\ requeues["t1"] = 1
    /\ genCalls["t1"] = 2

\* Every producer of dispatch messages at once: an empty store, a client that
\* creates one task, immediate or scheduled, clients that cancel, retry and chain,
\* the scheduler, and one worker whose generation call returns or raises as it
\* likes.
InitEnqueue ==
    /\ tasks = [id \in {} |-> NoTask]
    /\ queue = ZeroChain
    /\ ex = [e \in {1} |-> Idle]
    /\ genMode \in {"ok", "fail"}
    /\ dupLeft = 0
    /\ genCalls = Untracked
    /\ requeues = Untracked
    /\ completions = Untracked
    /\ escaped = {}
    /\ now = 0
    /\ api = [c \in ApiClients |-> ApiIdle]
    /\ sched = [s \in Scheds |-> SchedIdle]
    /\ budget = [create |-> 1, cancel |-> 1, retry |-> 1, chain |-> 1, observe |-> FALSE]
    /\ dispatches = [o \in DOMAIN NoDispatches |-> ZeroChain]
    /\ scheduler = [s \in DOMAIN sched |-> MainStart]
    /\ cancelLog = NoCancels

NextEnqueue ==
    \/ \E sf \in {{}} \cup {{t} : t \in 0..MaxTime} : api_create_task(sf)
    \/ api_create_task_refresh
    \/ api_create_task_enqueue
    \/ \E id \in DOMAIN tasks, sf \in {{}} \cup {{t} : t \in 0..MaxTime} : api_chain_task(id, sf)
    \/ api_chain_task_commit
    \/ api_chain_task_refresh
    \/ api_chain_task_enqueue
    \/ \E id \in DOMAIN tasks : api_retry_task(id, {})
    \/ api_retry_task_commit
    \/ api_retry_task_enqueue
    \/ \E id \in DOMAIN tasks : cancel_task(id)
    \/ cancel_task_commit
    \/ Tick
    \/ \E s \in DOMAIN sched : claim_and_enqueue_due_tasks(s)
    \/ \E s \in DOMAIN sched : claim_and_enqueue_due_tasks_commit(s)
    \/ \E s \in DOMAIN sched : claim_and_enqueue_due_tasks_enqueue(s)
    \/ \E e \in DOMAIN ex, id \in DOMAIN queue : execute_task(e, id)
    \/ \E e \in DOMAIN ex : execute_task_commit_running(e)
    \/ \E e \in DOMAIN ex : execute_task_refresh_running(e)
    \/ \E e \in DOMAIN ex : execute_task_generate_returns(e)
    \/ \E e \in DOMAIN ex : execute_task_generate_raises(e)
    \/ \E e \in DOMAIN ex : execute_task_refresh_done(e)
    \/ \E e \in DOMAIN ex : execute_task_commit_success(e)
    \/ \E e \in DOMAIN ex : execute_task_commit_cancelled(e)
    \/ \E e \in DOMAIN ex : execute_task_commit_requeue(e)
    \/ \E e \in DOMAIN ex : execute_task_enqueue(e)
    \/ \E e \in DOMAIN ex : execute_task_commit_failed(e)

SpecEnqueue == InitEnqueue /\ [][NextEnqueue]_vars

\* C35: no message is in the queue for a task stored as scheduled; a step that
\* enqueues an id does so for a stored task that is not scheduled; and no step
\* stores status scheduled on a task that had another status.
C35_NoMessageWhileScheduled ==
    /\ [](\A id \in DOMAIN tasks : tasks[id].status = "scheduled" => queue[id] = 0)
    /\ [][/\ \A id \in DOMAIN queue :
                queue'[id] > queue[id] =>
                   id \in DOMAIN tasks /\ tasks[id].status # "scheduled"
          /\ \A id \in DOMAIN tasks :
                tasks[id].status # "scheduled" => tasks'[id].status # "scheduled"]_vars

\* The task was created for immediate execution and dispatched by the create
\* request after its commit; it completed, and the child chained to it for a later
\* time is stored as scheduled with no message, the chain request having returned.
C35_Witness ==
    /\ {"t1", "t2"} \subseteq DOMAIN tasks
    /\ dispatches.create["t1"] = 1
    /\ tasks["t1"].status = "completed"
    /\ tasks["t2"].status = "scheduled"
    /\ tasks["t2"].parent_task_id = "t1"
    /\ queue["t2"] = 0
    /\ dispatches.chain["t2"] = 0
    /\ api["chain"].pc = "idle"

====
